---- MODULE Spec2Model ----
(***************************************************************************)
(* Call-lifecycle engine of the outbound voice-call orchestrator:          *)
(*   - the intake endpoint        (POST /outgoing/outbound-call)           *)
(*   - the queue worker           (processCallQueue on a setInterval)      *)
(*   - the status-callback handler (POST /outgoing/call-status)            *)
(*   - the retry scheduler        (scheduleRetry)                          *)
(*   - the post-call webhook      (POST /elevenlabs/webhook)               *)
(*   - the booking endpoint       (POST /bookAppointment)                  *)
(*   - the follow-up processor    (checkAndProcessFollowUps)               *)
(* Every await of a handler is a point where other handlers may run, so a  *)
(* handler is one action per stretch of code between two awaits that       *)
(* touch shared state (the calls and call_queue tables, the telephony      *)
(* provider).  Time is counted in whole hours since a UTC midnight.        *)
(***************************************************************************)
EXTENDS Integers, Sequences, FiniteSets, TLC

\* ---------------------------------------------------------------- bounds
MaxTickers  == 2   \* interval firings of the worker that may be running at once
MaxHandlers == 2   \* status callbacks that may be in handling at once
MaxCalls    == 4   \* call sids the telephony provider hands out
MaxQueueId  == 4   \* queue ids the database hands out
MaxClock    == 1   \* hours the clock advances
MaxRequests == 1   \* intake requests
MaxPosts    == 2   \* status callbacks the provider posts
MaxFaults   == 1   \* calls to a collaborator that fail
MaxWebhooks == 2   \* deliveries of a post-call webhook request
MaxWebhookTicks == 2   \* advances of the clock the webhook handler reads
MaxBookings == 1   \* booking requests
MaxSweeps == 3     \* sweeps of the follow-up processor
MaxFollowUps == 2  \* rows of follow_ups
MaxMatches == 2  \* matches of a regular expression in one text
MaxSlots == 4  \* slots the calendar answers
LegacyRows == 1  \* rows of a table that was there before
MaxMedia == 2  \* media messages of a stream

\* ------------------------------------------------------ program constants
MAX_ACTIVE         == 3
MAX_TOTAL_ATTEMPTS == 10
HoursPerDay        == 24
SIGNATURE_TOLERANCE_MINUTES == 30
SecondsPerMinute   == 60
AlternativesWindowDays == 7
UserSlotsLimit     == 3
StuckAfterHours    == 24

VARIABLES
    now,          \* the wall clock (UTC hours)
    call_queue,   \* table call_queue: a set of rows
    nextQueueId,  \* AUTOINCREMENT of call_queue.queue_id
    calls,        \* table calls: callSid -> row
    twilio,       \* the telephony provider's calls: sid -> [status, queue_id, ...]
    tickers,      \* running invocations of processCallQueue
    handlers,     \* running invocations of the call-status handler
    retryLog,     \* history: [sid, queue_id, retry_stage] of every retry row inserted
    intake,       \* the last intake request and its response
    posts,        \* status callbacks the provider has yet to post
    faults,       \* failures the collaborators (database, CRM, provider) may still have
    webhook,      \* POST /elevenlabs/webhook: the last request, its response and effects
    booking,      \* POST /bookAppointment: the CRM's free slots, the last request and its response
    followups,    \* follow_ups rows, the sweep's position, the follow-up last processed
    extraction,   \* extractProvinceFromAddress: the ZIP cache, the last address and its result
    slotPick,     \* the slots intake fetched, the text it stored, the time the AI booked from it
    database,     \* the database file's tables and columns, the runs of initializeDatabase
    bridge,       \* a media stream connection: the telephony socket and the voice-AI socket
    recovery      \* one run of executePostCallAnalysis: its inputs, its position, what it did

\* The state of the endpoints outside the call queue's life cycle
\* The state of the functions checked on their own
auxVars == <<extraction, slotPick, database, bridge, recovery>>

extVars == <<webhook, booking, followups, auxVars>>

vars == <<now, call_queue, nextQueueId, calls, twilio, tickers, handlers, retryLog, intake, posts, faults,
          extVars>>

Tickers  == 1..MaxTickers
Handlers == 1..MaxHandlers
Sids     == 1..MaxCalls

\* ------------------------------------------------------------ vocabulary
ALLOWED_SERVICES == {"Infissi", "Vetrate", "Pergole"}
machineDetectionStatuses == {"machine_start", "fax", "machine_beep",
                             "machine_end_silence", "machine_end_other", "machine_end_beep"}
ActiveStatuses  == {"queued", "ringing", "in-progress"}
TerminalForHangup == {"completed", "canceled", "failed"}
\* CallStatus values the provider posts; "none" is a callback without the field
\* (the asynchronous machine-detection callback).
CallStatuses == {"none", "initiated", "ringing", "in-progress", "completed",
                 "no-answer", "busy", "failed", "canceled"}
\* AnsweredBy values exercised: absent, a human, one machine token.
AnsweredByValues == {"none", "human", "machine_start"}

NoCall == [callSid |-> 0]
DefaultSlotsText == "No availability information found."

\* The slot strings the intake handler renders
SlotsText       == "Lun 03-03-2025: 09:00\\nSales Rep: U1"
SlotsException  == "Errore durante il controllo degli slot."
SlotsFetchError == "Errore nel recupero degli slot GHL."
SlotsNoneValid  == "Nessuno slot disponibile nell'intervallo richiesto (dopo elaborazione)."
SlotsEmpty      == "Nessuno slot disponibile nell'intervallo richiesto (vuoto o non valido)."

\* A lead as the queue stores it
Lead(c) == [contact |-> c, service |-> "Infissi", province |-> "RM"]

\* ------------------------------------------------------------- call_queue
\* INSERT INTO call_queue (...): created_at defaults to CURRENT_TIMESTAMP,
\* last_error to NULL.  call_options is the part of call_options_json that
\* differs between the two writers: whether a statusCallback URL is set.
QueueRow(id, lead, stage, sched, first, slots, url, cb) ==
    [queue_id |-> id, contact_id |-> lead.contact, service |-> lead.service,
     province |-> lead.province, retry_stage |-> stage, status |-> "pending",
     scheduled_at |-> sched, created_at |-> now, first_attempt_timestamp |-> first,
     available_slots_text |-> slots, initial_signed_url |-> url,
     last_error |-> "", statusCallback |-> cb]

\* UPDATE call_queue SET status = 'failed', last_error = ? WHERE queue_id = ?
MarkFailed(q, id, err) ==
    {IF r.queue_id = id THEN [r EXCEPT !.status = "failed", !.last_error = err] ELSE r : r \in q}

\* UPDATE call_queue SET status = 'processing' WHERE queue_id = ? AND status = 'pending'
\* (the number of rows changed is not looked at by the caller)
MarkProcessing(q, id) ==
    {IF r.queue_id = id /\ r.status = "pending" THEN [r EXCEPT !.status = "processing"] ELSE r : r \in q}

\* DELETE FROM call_queue WHERE queue_id = ?
DeleteRow(q, id) == {r \in q : r.queue_id # id}

\* ORDER BY scheduled_at ASC (ties in rowid order)
Earlier(a, b) == \/ a.scheduled_at < b.scheduled_at
                 \/ a.scheduled_at = b.scheduled_at /\ a.queue_id < b.queue_id

RECURSIVE SortRows(_)
SortRows(S) ==
    IF S = {} THEN <<>>
    ELSE LET m == CHOOSE r \in S : \A o \in S \ {r} : Earlier(r, o)
         IN <<m>> \o SortRows(S \ {m})

Take(s, n) == SubSeq(s, 1, IF Len(s) < n THEN Len(s) ELSE n)

\* SELECT * FROM call_queue WHERE status = 'pending' AND scheduled_at <= ?
\*   ORDER BY scheduled_at ASC LIMIT ?
SelectPending(q, t, limit) ==
    Take(SortRows({r \in q : r.status = "pending" /\ r.scheduled_at <= t}), limit)

\* ------------------------------------------------------------------ calls
\* setCallData: INSERT OR REPLACE INTO calls (...) with the columns the worker
\* gives; retry_scheduled and answeredBy are not among them and take their
\* column defaults (0 and NULL), and so do conversationId and
\* transcript_summary.
CallRow(sid, job) ==
    [callSid |-> sid, contactId |-> job.contact_id, retry_count |-> job.retry_stage,
     status |-> "initiated", signedUrl |-> job.initial_signed_url,
     answeredBy |-> "none", availableSlots |-> job.available_slots_text,
     first_attempt_timestamp |-> job.first_attempt_timestamp,
     service |-> job.service, province |-> job.province, retry_scheduled |-> 0,
     conversationId |-> 0, transcript_summary |-> FALSE]

\* getCallData: the row, or null
getCallData(sid) == IF sid \in DOMAIN calls THEN calls[sid] ELSE NoCall

\* ---------------------------------------------------------------- telephony
\* calls.list({status: ['queued','ringing','in-progress']}).length
countActive == Cardinality({s \in DOMAIN twilio : twilio[s].status \in ActiveStatuses})

\* count: how the invocation's active-call count went ("-" before it is taken)
IdleTicker  == [pc |-> "idle", available |-> 0, jobs |-> <<>>, idx |-> 0, sid |-> 0, count |-> "-"]
\* An invocation of the call-status handler keeps what it still reads: the
\* CallSid, the AnsweredBy it has yet to store, the row it loaded, and the
\* branch its CallStatus and isMachineDetected select (path).
IdleHandler == [pc |-> "idle", sid |-> 0, AnsweredBy |-> "none", call |-> NoCall,
                path |-> "none", resp |-> 0, notes |-> {}]

\* ------------------------------------------------------------ retry scheduler
\* RETRY_SCHEDULE, indexed by the next attempt number (1-based here, the
\* source indexes it with next - 1).
RETRY_SCHEDULE ==
    << [type |-> "immediate", arg |-> 0],
       [type |-> "delay",     arg |-> 1],
       [type |-> "immediate", arg |-> 0],
       [type |-> "next_time", arg |-> 9],
       [type |-> "immediate", arg |-> 0],
       [type |-> "next_time", arg |-> 14],
       [type |-> "immediate", arg |-> 0],
       [type |-> "next_time", arg |-> 19],
       [type |-> "immediate", arg |-> 0] >>

\* scheduleConfig reading RETRY_SCHEDULE one entry too far
scheduleConfigIndexOffByOne(next) ==
    IF next + 1 \in 1..Len(RETRY_SCHEDULE) THEN RETRY_SCHEDULE[next + 1]
    ELSE [type |-> "immediate", arg |-> 0]
scheduleConfig(next) ==
    IF next \in 1..Len(RETRY_SCHEDULE) THEN RETRY_SCHEDULE[next]
    ELSE [type |-> "immediate", arg |-> 0]

\* The UTC offsets (hours) of the local zones the host process may run under;
\* the source sets none.  Date#setHours works in that zone.
ServerUtcOffsets == {0, 1, 2}

\* ITALIAN_TIMEZONE, Europe/Rome, as its standard-time UTC offset in hours
RomeUtcOffset == 1

\* ScheduledAt keeping today's target hour even when it has passed
ScheduledAtNoRollover(cfg, t, off) ==
    CASE cfg.type = "immediate" -> t
      [] cfg.type = "delay"     -> t + cfg.arg
      [] cfg.type = "next_time" -> t - ((t + off) % HoursPerDay) + cfg.arg
\* scheduled_at_base for a schedule entry, at time t, local offset off
ScheduledAt(cfg, t, off) ==
    CASE cfg.type = "immediate" -> t
      [] cfg.type = "delay"     -> t + cfg.arg
      [] cfg.type = "next_time" ->
            LET local  == (t + off) % HoursPerDay
                target == t - local + cfg.arg
            IN IF t >= target THEN target + HoursPerDay ELSE target

\* isPermanentIssue looking at the reason only
isPermanentIssueReasonOnly(call, reason) ==
    \/ reason = "no_sales_reps"
    \/ reason = "permanent_failure"
\* options.reason names a permanent issue, or the province is 'unknown'
\* from the third attempt on
isPermanentIssue(call, reason) ==
    \/ reason = "no_sales_reps"
    \/ reason = "permanent_failure"
    \/ call.province = "unknown" /\ call.retry_count >= 2

\* RetryDecision with the cap compared against MAX_TOTAL_ATTEMPTS itself
RetryDecisionCapOffByOne(call, reason) ==
    IF isPermanentIssue(call, reason) THEN "permanent"
    ELSE IF call.retry_count >= MAX_TOTAL_ATTEMPTS THEN "capped"
    ELSE "insert"
\* What scheduleRetry decides before it touches the database:
\*   "permanent" (notify, no row), "capped" (no row) or "insert".
RetryDecision(call, reason) ==
    IF isPermanentIssue(call, reason) THEN "permanent"
    ELSE IF call.retry_count >= MAX_TOTAL_ATTEMPTS - 1 THEN "capped"
    ELSE "insert"

\* RetryRow stamping the retry as a first attempt of its own
RetryRowFreshFirstAttempt(call, off) ==
    LET next  == call.retry_count + 1
        slots == IF call.availableSlots = "" THEN DefaultSlotsText ELSE call.availableSlots
    IN QueueRow(nextQueueId,
                [contact |-> call.contactId, service |-> call.service, province |-> call.province],
                next, ScheduledAt(scheduleConfig(next), now, off), now, slots,
                call.signedUrl, TRUE)
\* The row scheduleRetry inserts for `call`
RetryRow(call, off) ==
    LET next  == call.retry_count + 1
        first == IF call.first_attempt_timestamp >= 0 THEN call.first_attempt_timestamp ELSE now
        slots == IF call.availableSlots = "" THEN DefaultSlotsText ELSE call.availableSlots
    IN QueueRow(nextQueueId,
                [contact |-> call.contactId, service |-> call.service, province |-> call.province],
                next, ScheduledAt(scheduleConfig(next), now, off), first, slots,
                call.signedUrl, TRUE)

\* ------------------------------------------------------------ collaborators
\* Outcomes of a call to the database, the CRM or the provider: it succeeds,
\* or (while failures remain) it fails
Outcomes == IF faults > 0 THEN BOOLEAN ELSE {TRUE}
Spend(ok) == IF ok THEN faults ELSE faults - 1

\* -------------------------------------------------------------- queue worker
\* countActiveTwilioCalls going on with no active call when the list fails
countActiveTwilioCallsFailOpen(listOk) == IF listOk THEN countActive ELSE 0
\* countActiveTwilioCalls: calls.list({status: queued, ringing, in-progress});
\* "Assume max if Twilio check fails"
countActiveTwilioCalls(listOk) == IF listOk THEN countActive ELSE MAX_ACTIVE

NextJob(tk) ==
    IF tk.idx < Len(tk.jobs) THEN [tk EXCEPT !.pc = "claim", !.idx = tk.idx + 1, !.sid = 0]
    ELSE IdleTicker

Job(tk) == tk.jobs[tk.idx]

\* setInterval fires (whether or not an earlier invocation is still running);
\* countActiveTwilioCalls; available = MAX_ACTIVE - active; <= 0 returns.
\* A failed count is reported as MAX_ACTIVE.
TickStart(t) ==
    /\ tickers[t].pc = "idle"
    /\ \A u \in 1..(t-1) : tickers[u].pc # "idle"
    /\ \E listOk \in Outcomes :
         LET active    == countActiveTwilioCalls(listOk)
             available == MAX_ACTIVE - active
             count     == IF listOk THEN "-" ELSE "failed"
         IN /\ tickers' = [tickers EXCEPT ![t] =
                             IF available <= 0 THEN [IdleTicker EXCEPT !.count = count]
                             ELSE [IdleTicker EXCEPT !.pc = "select", !.available = available,
                                                     !.count = count]]
            /\ faults' = Spend(listOk)
    /\ UNCHANGED <<now, call_queue, nextQueueId, calls, twilio, handlers, retryLog, intake, posts>>
    /\ UNCHANGED extVars

\* openDb and SELECT the due pending rows, at most `available`; none, or a
\* throw (the outer catch), ends the invocation
TickSelect(t) ==
    /\ tickers[t].pc = "select"
    /\ \E dbOk \in Outcomes :
         LET jobs == IF dbOk THEN SelectPending(call_queue, now, tickers[t].available) ELSE <<>>
         IN /\ tickers' = [tickers EXCEPT ![t] =
                             IF jobs = <<>> THEN IdleTicker
                             ELSE [@ EXCEPT !.pc = "claim", !.jobs = jobs, !.idx = 1]]
            /\ faults' = Spend(dbOk)
    /\ UNCHANGED <<now, call_queue, nextQueueId, calls, twilio, handlers, retryLog, intake, posts>>
    /\ UNCHANGED extVars

\* getValidGoHighlevelToken for the job (none: mark the row failed and
\* continue), then "Mark as processing immediately" (an UPDATE that throws
\* skips the job).  The token check touches nothing the other handlers use.
TickClaim(t) ==
    /\ tickers[t].pc = "claim"
    /\ \E token \in Outcomes, dbOk \in Outcomes :
         /\ token \/ dbOk
         /\ faults' = Spend(token /\ dbOk)
         /\ IF ~token
            THEN /\ call_queue' = MarkFailed(call_queue, Job(tickers[t]).queue_id,
                                             "GoHighLevel tokens not available")
                 /\ tickers' = [tickers EXCEPT ![t] = NextJob(@)]
            ELSE IF dbOk
            THEN /\ call_queue' = MarkProcessing(call_queue, Job(tickers[t]).queue_id)
                 /\ tickers' = [tickers EXCEPT ![t].pc = "create"]
            ELSE /\ tickers' = [tickers EXCEPT ![t] = NextJob(@)]
                 /\ UNCHANGED call_queue
    /\ UNCHANGED <<now, nextQueueId, calls, twilio, handlers, retryLog, intake, posts>>
    /\ UNCHANGED extVars

\* twilioClient.calls.create(callOptions); a throw marks the row failed
TickCreate(t) ==
    /\ tickers[t].pc = "create"
    /\ \/ /\ Cardinality(DOMAIN twilio) < MaxCalls
          /\ LET sid == Cardinality(DOMAIN twilio) + 1
             IN /\ twilio' = (sid :> [status |-> "queued", queue_id |-> Job(tickers[t]).queue_id,
                                      statusCallback |-> Job(tickers[t]).statusCallback]) @@ twilio
                /\ tickers' = [tickers EXCEPT ![t].pc = "store", ![t].sid = sid]
          /\ UNCHANGED <<call_queue, faults>>
       \/ /\ faults > 0
          /\ faults' = faults - 1
          /\ call_queue' = MarkFailed(call_queue, Job(tickers[t]).queue_id, "call initiation error")
          /\ tickers' = [tickers EXCEPT ![t] = NextJob(@)]
          /\ UNCHANGED twilio
    /\ UNCHANGED <<now, nextQueueId, calls, handlers, retryLog, intake, posts>>
    /\ UNCHANGED extVars

\* The catch of a job: UPDATE call_queue SET status = 'failed', in a try of
\* its own whose catch only logs.  After a database statement has thrown,
\* the UPDATE may throw for the same cause (updOk false) and the row stays
\* as it is.
MarkFailedInCatch(q, id, err, updOk) == IF updOk THEN MarkFailed(q, id, err) ELSE q

\* setCallData(callRecord.sid, {...}); a throw lands in the same catch
TickStore(t) ==
    /\ tickers[t].pc = "store"
    /\ \E dbOk \in Outcomes :
         /\ faults' = Spend(dbOk)
         /\ IF dbOk
            THEN /\ calls' = (tickers[t].sid :> CallRow(tickers[t].sid, Job(tickers[t]))) @@ calls
                 /\ tickers' = [tickers EXCEPT ![t].pc = "finish"]
                 /\ UNCHANGED call_queue
            ELSE /\ \E updOk \in BOOLEAN :
                      call_queue' = MarkFailedInCatch(call_queue, Job(tickers[t]).queue_id,
                                                      "call initiation error", updOk)
                 /\ tickers' = [tickers EXCEPT ![t] = NextJob(@)]
                 /\ UNCHANGED calls
    /\ UNCHANGED <<now, nextQueueId, twilio, handlers, retryLog, intake, posts>>
    /\ UNCHANGED extVars

\* addCallAttemptNote (best effort, never throws), then DELETE the queue row;
\* a DELETE that throws lands in the same catch
TickFinish(t) ==
    /\ tickers[t].pc = "finish"
    /\ \E dbOk \in Outcomes :
         /\ faults' = Spend(dbOk)
         /\ \E updOk \in BOOLEAN :
              call_queue' = IF dbOk THEN DeleteRow(call_queue, Job(tickers[t]).queue_id)
                            ELSE MarkFailedInCatch(call_queue, Job(tickers[t]).queue_id,
                                                   "call initiation error", updOk)
    /\ tickers' = [tickers EXCEPT ![t] = NextJob(@)]
    /\ UNCHANGED <<now, nextQueueId, calls, twilio, handlers, retryLog, intake, posts>>
    /\ UNCHANGED extVars

\* ------------------------------------------------------ telephony provider
EndStatuses == {"completed"}

\* A live call ends on the provider's side
TwilioEnd(sid) ==
    /\ sid \in DOMAIN twilio
    /\ twilio[sid].status \in ActiveStatuses
    /\ \E st \in EndStatuses : twilio' = [twilio EXCEPT ![sid].status = st]
    /\ UNCHANGED <<now, call_queue, nextQueueId, calls, tickers, handlers, retryLog, intake, posts, faults>>
    /\ UNCHANGED extVars

\* What the provider posts to /call-status for a call it created: the
\* asynchronous machine-detection result (AnsweredBy, no CallStatus), always
\* configured; status events only when the call options name a statusCallback.
ProviderPosts(sid, CallStatus, AnsweredBy) ==
    /\ sid \in DOMAIN twilio
    /\ IF CallStatus = "none" THEN AnsweredBy # "none" ELSE twilio[sid].statusCallback

\* ------------------------------------------------- POST /call-status handler
isMachine(a) == a \in machineDetectionStatuses

isRetryableFailure(CallStatus, machine) ==
    \/ CallStatus \in {"completed", "canceled"} /\ machine
    \/ CallStatus = "no-answer"
    \/ CallStatus = "busy"
    \/ CallStatus = "failed"

\* The response is sent: the invocation's locals are gone
Done(hd, code, notes) ==
    [IdleHandler EXCEPT !.pc = "done", !.sid = hd.sid, !.resp = code, !.notes = notes]

\* The branch taken once AnsweredBy is stored: the machine-on-a-live-call
\* branch, the retryable-failure branch, or neither
Branch(CallStatus, isMachineDetected) ==
    IF isMachineDetected /\ CallStatus \notin TerminalForHangup THEN "latchLive"
    ELSE IF isRetryableFailure(CallStatus, isMachineDetected) THEN "latch"
    ELSE "none"

Enter(hd) ==
    IF hd.path = "none" THEN Done(hd, 200, {})
    ELSE [hd EXCEPT !.pc = hd.path, !.AnsweredBy = "none"]

\* The request arrives; getCallData; the two early returns; isMachineDetected
StatusArrive(h, sid, CallStatus, AnsweredBy) ==
    /\ handlers[h].pc \in {"idle", "done"}
    /\ \A u \in 1..(h-1) : handlers[u].pc \notin {"idle", "done"}
    /\ posts > 0
    /\ ProviderPosts(sid, CallStatus, AnsweredBy)
    /\ \E dbOk \in Outcomes :
         LET call == getCallData(sid)
             isMachineDetected == isMachine(AnsweredBy) \/ isMachine(call.answeredBy)
             hd   == [IdleHandler EXCEPT !.sid = sid, !.call = call]
         IN /\ faults' = Spend(dbOk)
            /\ handlers' = [handlers EXCEPT ![h] =
                 IF ~dbOk              \* getCallData rethrows: the handler leaves (500)
                 THEN Done(hd, 500, {})
                 ELSE IF call = NoCall
                 THEN Done(hd, 200, {"Call Data Not Found"})
                 ELSE IF call.retry_scheduled # 0
                 THEN Done(hd, 200, {})
                 ELSE LET h1 == [hd EXCEPT !.path = Branch(CallStatus, isMachineDetected)]
                      IN IF AnsweredBy # "none" /\ AnsweredBy # call.answeredBy
                         THEN [h1 EXCEPT !.pc = "answered", !.AnsweredBy = AnsweredBy]
                         ELSE Enter(h1)]
    /\ posts' = posts - 1
    /\ UNCHANGED <<now, call_queue, nextQueueId, calls, twilio, tickers, retryLog, intake>>
    /\ UNCHANGED extVars

\* updateCallData writing the row anew the way setCallData does (INSERT OR
\* REPLACE): the columns it is not given take their defaults
updateCallDataReplacing(sid, col, v) ==
    IF sid \in DOMAIN calls
    THEN [calls EXCEPT ![sid] = [[@ EXCEPT !.retry_scheduled = 0] EXCEPT ![col] = v]]
    ELSE calls
\* UPDATE calls SET <col> = v WHERE callSid = sid (no row: nothing changes)
updateCallData(sid, col, v) ==
    IF sid \in DOMAIN calls THEN [calls EXCEPT ![sid][col] = v] ELSE calls

\* updateCallData(CallSid, {answeredBy}) in its own try/catch
StatusAnswered(h) ==
    /\ handlers[h].pc = "answered"
    /\ \E dbOk \in Outcomes :
         /\ faults' = Spend(dbOk)
         /\ IF dbOk
            THEN /\ calls' = updateCallData(handlers[h].sid, "answeredBy", handlers[h].AnsweredBy)
                 /\ handlers' = [handlers EXCEPT ![h] = Enter(@)]
            ELSE /\ handlers' = [handlers EXCEPT ![h] = Enter(@)]
                 /\ UNCHANGED calls
    /\ UNCHANGED <<now, call_queue, nextQueueId, twilio, tickers, retryLog, intake, posts>>
    /\ UNCHANGED extVars

\* Machine on a live call: set the latch inside the try; a throw skips the hangup
StatusLatchLive(h) ==
    /\ handlers[h].pc = "latchLive"
    /\ \E dbOk \in Outcomes :
         /\ faults' = Spend(dbOk)
         /\ IF dbOk
            THEN /\ calls' = updateCallData(handlers[h].sid, "retry_scheduled", 1)
                 /\ handlers' = [handlers EXCEPT ![h].pc = "hangup"]
            ELSE /\ handlers' = [handlers EXCEPT ![h].pc = "retry"]
                 /\ UNCHANGED calls
    /\ UNCHANGED <<now, call_queue, nextQueueId, twilio, tickers, retryLog, intake, posts>>
    /\ UNCHANGED extVars

\* calls(sid).fetch(); unless terminal, calls(sid).update({status: "completed"});
\* any throw is caught
StatusHangup(h) ==
    /\ handlers[h].pc = "hangup"
    /\ \E apiOk \in Outcomes :
         /\ faults' = Spend(apiOk)
         /\ twilio' = IF apiOk /\ twilio[handlers[h].sid].status \in ActiveStatuses
                      THEN [twilio EXCEPT ![handlers[h].sid].status = "completed"]
                      ELSE twilio
    /\ handlers' = [handlers EXCEPT ![h].pc = "retry"]
    /\ UNCHANGED <<now, call_queue, nextQueueId, calls, tickers, retryLog, intake, posts>>
    /\ UNCHANGED extVars

\* Retryable failure: set the latch; a throw leaves the handler (500)
StatusLatch(h) ==
    /\ handlers[h].pc = "latch"
    /\ \E dbOk \in Outcomes :
         /\ faults' = Spend(dbOk)
         /\ IF dbOk
            THEN /\ calls' = updateCallData(handlers[h].sid, "retry_scheduled", 1)
                 /\ handlers' = [handlers EXCEPT ![h].pc = "retry"]
            ELSE /\ handlers' = [handlers EXCEPT ![h] = Done(@, 500, {})]
                 /\ UNCHANGED calls
    /\ UNCHANGED <<now, call_queue, nextQueueId, twilio, tickers, retryLog, intake, posts>>
    /\ UNCHANGED extVars

RetryReason(hd) ==
    IF hd.path = "latchLive" THEN "machine_detected" ELSE "retryable_failure"

\* scheduleRetry(callDataForRetryLogic, failedCallSid, {reason}), run by
\* invocation h, which answers 200 once it returns
scheduleRetry(h, call, sid, reason) ==
    LET dec == RetryDecision(call, reason)
    IN \/ /\ dec = "permanent"
          /\ handlers' = [handlers EXCEPT ![h] = Done(@, 200, {"Call Retry Stopped - Permanent Issue"})]
          /\ UNCHANGED <<call_queue, nextQueueId, retryLog, faults>>
       \/ /\ dec = "capped"
          /\ handlers' = [handlers EXCEPT ![h] = Done(@, 200, {})]
          /\ UNCHANGED <<call_queue, nextQueueId, retryLog, faults>>
       \/ /\ dec = "insert"
          /\ nextQueueId <= MaxQueueId
          /\ \E off \in ServerUtcOffsets :
               /\ call_queue' = call_queue \cup {RetryRow(call, off)}
               /\ nextQueueId' = nextQueueId + 1
               /\ retryLog' = retryLog \cup {[sid |-> sid, queue_id |-> nextQueueId,
                                                retry_stage |-> RetryRow(call, off).retry_stage]}
               /\ handlers' = [handlers EXCEPT ![h] = Done(@, 200, {})]
          /\ UNCHANGED faults
       \/ /\ dec = "insert"      \* the INSERT throws: caught and notified
          /\ faults > 0
          /\ faults' = faults - 1
          /\ handlers' = [handlers EXCEPT ![h] = Done(@, 200, {"DB Retry Scheduling Error"})]
          /\ UNCHANGED <<call_queue, nextQueueId, retryLog>>

\* await scheduleRetry(call, CallSid, {reason}) and the 200
StatusRetry(h) ==
    /\ handlers[h].pc = "retry"
    /\ scheduleRetry(h, handlers[h].call, handlers[h].sid, RetryReason(handlers[h]))
    /\ UNCHANGED <<now, calls, twilio, tickers, intake, posts>>
    /\ UNCHANGED extVars

\* scheduleRetry applied to the call data and reason the invocation was
\* given (a caller other than the status handler)
ScheduleRetry(h) ==
    /\ handlers[h].pc = "scheduleRetry"
    /\ scheduleRetry(h, handlers[h].call, handlers[h].sid, handlers[h].reason)
    /\ UNCHANGED <<now, calls, twilio, tickers, intake, posts>>
    /\ UNCHANGED extVars

\* ------------------------------------- the other writers of table calls
\* The media bridge, on conversation_initiation_metadata:
\* updateCallData(callSid, {conversationId}) in a try of its own.  The
\* conversation of the call with sid s has id s.
BridgeMetadata(sid) ==
    /\ sid \in DOMAIN calls
    /\ calls[sid].conversationId = 0
    /\ \E dbOk \in Outcomes :
         /\ faults' = Spend(dbOk)
         /\ calls' = IF dbOk THEN updateCallData(sid, "conversationId", sid) ELSE calls
    /\ UNCHANGED <<now, call_queue, nextQueueId, twilio, tickers, handlers, retryLog, intake, posts>>
    /\ UNCHANGED extVars

\* analysis?.call_successful || 'completed': an outcome the analysis names, or
\* the fallback
WebhookStatuses == {"success", "completed"}
\* STEP 7 of the post-call webhook for conversation c: UPDATE calls SET
\* status = ?, transcript_summary = ?, updated_at = CURRENT_TIMESTAMP WHERE
\* conversationId = c, when a row has that conversationId
WebhookCallUpdate(c, status) ==
    /\ \E sid \in DOMAIN calls : calls[sid].conversationId = c /\ ~calls[sid].transcript_summary
    /\ \E dbOk \in Outcomes :
         /\ faults' = Spend(dbOk)
         /\ calls' = IF dbOk
                      THEN [sid \in DOMAIN calls |->
                              IF calls[sid].conversationId = c
                              THEN [calls[sid] EXCEPT !.status = status, !.transcript_summary = TRUE]
                              ELSE calls[sid]]
                      ELSE calls
    /\ UNCHANGED <<now, call_queue, nextQueueId, twilio, tickers, handlers, retryLog, intake, posts>>
    /\ UNCHANGED extVars

\* --------------------------------------------- POST /outbound-call (intake)
\* The active rows of table sales_reps
sales_reps ==
    { [ghl_user_id |-> "U1", services |-> {"Infissi"},            provinces |-> {"RM"}],
      [ghl_user_id |-> "U2", services |-> {"Infissi", "Vetrate"}, provinces |-> {"RM"}] }

\* getSalesRepsByServiceAndProvince: the matching reps; a failed query gives none
getSalesRepsByServiceAndProvince(service, province, queryOk) ==
    IF queryOk
    THEN {rep.ghl_user_id : rep \in {r \in sales_reps : service \in r.services /\ province \in r.provinces}}
    ELSE {}

\* What a request carries: Service, and whether full_address, phone and
\* contact id, and customData.isAbruptEndingRetry are there
Requests ==
    [service : {"", "Infissi", "Vetrate", "Bagni"}, address : BOOLEAN,
     ids : BOOLEAN, abrupt : BOOLEAN]

\* What the collaborators answer while the request is handled
Envs ==
    [signedUrl : {"ok", "throw"},                     \* getSignedUrl
     token     : {"ok", "none"},                      \* getValidGoHighlevelToken
     province  : {"RM", "MI", "none"},                \* extractProvinceFromAddress
     router    : BOOLEAN,                             \* the sales_reps query succeeds
     fetch     : {"slots", "invalid", "empty", "null", "throw"},  \* the slot fetch
     insert    : BOOLEAN]                             \* the INSERT succeeds

\* The validations, first failure wins: the step that rejects, or "ok"
Validation(req) ==
    IF req.service = "" THEN "service"
    ELSE IF req.service \notin ALLOWED_SERVICES THEN "allowed"
    ELSE IF ~req.abrupt /\ ~req.address THEN "address"
    ELSE IF ~req.ids THEN "ids"
    ELSE "ok"

\* The collaborators are asked only for a request that passes validation
NoEnv == [signedUrl |-> "ok", token |-> "ok", province |-> "none", router |-> TRUE,
          fetch |-> "slots", insert |-> TRUE]
EnvsFor(req) == IF Validation(req) = "ok" THEN Envs ELSE {NoEnv}

\* allSlots after the fetch: the single-rep and the abrupt-retry fetch keep the
\* initial [] unless an array comes back; the multi-rep fetch is assigned as is
allSlots(reps, fetch) ==
    IF Cardinality(reps) > 1 THEN fetch
    ELSE IF fetch = "null" THEN "empty" ELSE fetch

\* formattedSlotsString for allSlots
formattedSlotsString(all) ==
    CASE all = "slots"   -> SlotsText
      [] all = "invalid" -> SlotsNoneValid
      [] all = "null"    -> SlotsFetchError
      [] all = "empty"   -> SlotsEmpty

\* noRepRejected with the rejection lost: the handler goes on to the slot fetch
noRepRejectedFallsThrough(reps, abrupt) == FALSE
\* targetSalesReps.length === 0 and not an abrupt-ending retry: reject
noRepRejected(reps, abrupt) == reps = {} /\ ~abrupt

\* catch (slotsError): reps there, not an abrupt-ending retry: critical
slotExceptionIsCritical(reps, abrupt) == reps # {} /\ ~abrupt

\* formattedSlotsString.includes("Errore") || allSlots === null
hasSlotError(text, all) == text \in {SlotsException, SlotsFetchError} \/ all = "null"

\* formattedSlotsString.includes("Nessuno slot disponibile") || allSlots is []
hasNoSlots(text, all) == text \in {SlotsNoneValid, SlotsEmpty} \/ all = "empty"

\* criticalSlotFailure that looks at hasSlotError only
criticalSlotFailureErrorsOnly(reps, abrupt, text, all) ==
    /\ reps # {} /\ ~abrupt
    /\ hasSlotError(text, all)
\* CRITICAL CHECK after the fetch: reps there, not an abrupt-ending retry,
\* and hasSlotError || hasNoSlots
criticalSlotFailure(reps, abrupt, text, all) ==
    /\ reps # {} /\ ~abrupt
    /\ hasSlotError(text, all) \/ hasNoSlots(text, all)

\* The titles of the fatal notifications
FatalException == "FATAL: GHL Calendar API Exception with Sales Reps Available"
FatalApiError  == "FATAL: GHL Calendar API Error with Sales Reps Available"
FatalNoSlots   == "FATAL: No Calendar Slots Available with Sales Reps"

\* province and targetSalesReps as the handler computes them
intakeProvince(req, env) == IF req.address THEN env.province ELSE "none"
targetSalesReps(req, env) ==
    IF intakeProvince(req, env) # "none"
    THEN getSalesRepsByServiceAndProvince(req.service, intakeProvince(req, env), env.router)
    ELSE {}

\* The handler's way through a request: where it returns (step), the
\* response code, critical:true, the notifications sent, the slot string
IntakeOutcome(req, env) ==
    LET reps == targetSalesReps(req, env)
        all  == allSlots(reps, env.fetch)
        text == IF env.fetch = "throw" THEN SlotsException ELSE formattedSlotsString(all)
        R(step, code, critical, notes) ==
            [step |-> step, code |-> code, critical |-> critical, notes |-> notes, slots |-> text]
    IN IF Validation(req) = "service"
            THEN R("service", 400, FALSE, {"Missing Service - Call Blocked"})
       ELSE IF Validation(req) = "allowed" THEN R("allowed", 400, FALSE, {})
       ELSE IF Validation(req) = "address"
            THEN R("address", 400, FALSE, {"Missing Address - Call Blocked"})
       ELSE IF Validation(req) = "ids" THEN R("ids", 400, FALSE, {})
       ELSE IF env.signedUrl = "throw" THEN R("signedUrl", 500, FALSE, {})
       ELSE IF env.token = "none"
            THEN R("token", 500, FALSE, {"GoHighLevel Token Missing - Call Blocked"})
       ELSE IF noRepRejected(reps, req.abrupt) THEN R("router", 400, FALSE, {"No Sales Rep Available"})
       ELSE IF env.fetch = "throw" /\ slotExceptionIsCritical(reps, req.abrupt)
            THEN R("slots", 500, TRUE, {FatalException})
       ELSE IF criticalSlotFailure(reps, req.abrupt, text, all)
            THEN R("slots", 500, TRUE, {IF hasSlotError(text, all) THEN FatalApiError ELSE FatalNoSlots})
       ELSE IF ~env.insert THEN R("insert", 500, FALSE, {})
       ELSE R("queued", 202, FALSE, {})

\* The steps of the handler, in the order it takes them
IntakeSteps == <<"service", "allowed", "address", "ids", "signedUrl", "token",
                 "router", "slots", "insert", "queued">>
StepIndex(step) == CHOOSE i \in 1..Len(IntakeSteps) : IntakeSteps[i] = step
Reached(out, step) == StepIndex(out.step) >= StepIndex(step)

\* IntakeRow with scheduled_at an hour after the insert
IntakeRowDueLater(req, env, slots) ==
    QueueRow(nextQueueId,
             [contact |-> intake.n + 1, service |-> req.service, province |-> intakeProvince(req, env)],
             0, now + 1, now, slots, "url", FALSE)
\* INSERT INTO call_queue (...) VALUES (..., 0, 'pending', scheduled_at_iso, ...,
\* formattedSlotsString, signedUrl, firstAttemptTimestamp): both times are
\* new Date() taken next to each other; the call options name no statusCallback
IntakeRow(req, env, slots) ==
    QueueRow(nextQueueId,
             [contact |-> intake.n + 1, service |-> req.service, province |-> intakeProvince(req, env)],
             0, now, now, slots, "url", FALSE)

NoIntake ==
    [n |-> 0, req |-> [service |-> "", address |-> FALSE, ids |-> FALSE, abrupt |-> FALSE],
     step |-> "-", code |-> 0, critical |-> FALSE, notes |-> {},
     signedUrl |-> "-", token |-> "-", province |-> "-", reps |-> {}, fetch |-> "-", slots |-> "-"]

\* The request, the response and what the handler got from its collaborators
\* on the way (the token store's answer is kept for every valid request)
IntakeRecord(req, env, out) ==
    [n |-> intake.n + 1, req |-> req,
     step |-> out.step, code |-> out.code, critical |-> out.critical, notes |-> out.notes,
     signedUrl |-> IF Reached(out, "signedUrl") THEN env.signedUrl ELSE "-",
     token     |-> IF Reached(out, "signedUrl") THEN env.token ELSE "-",
     province  |-> IF Reached(out, "router") THEN intakeProvince(req, env) ELSE "-",
     reps      |-> IF Reached(out, "router") THEN targetSalesReps(req, env) ELSE {},
     fetch     |-> IF Reached(out, "slots") THEN env.fetch ELSE "-",
     slots     |-> IF Reached(out, "slots") THEN out.slots ELSE "-"]

\* One request, from its arrival to its response
Intake(req, env) ==
    /\ intake.n < MaxRequests
    /\ nextQueueId <= MaxQueueId
    /\ LET out == IntakeOutcome(req, env)
       IN /\ intake' = IntakeRecord(req, env, out)
          /\ IF out.step = "queued"
             THEN /\ call_queue' = call_queue \cup {IntakeRow(req, env, out.slots)}
                  /\ nextQueueId' = nextQueueId + 1
             ELSE UNCHANGED <<call_queue, nextQueueId>>
    /\ UNCHANGED <<now, calls, twilio, tickers, handlers, retryLog, posts, faults>>
    /\ UNCHANGED extVars

\* --------------------------------------------- POST /elevenlabs/webhook
\* request.body after the content-type parser: null, a JSON value that is no
\* object, or an object with its type, its data and the fields of data the
\* handler branches on (a tracked contactId, analysis.call_successful, a
\* non-empty transcript).  The record also stands for the raw bytes.
WebhookBody(kind, type, data, contact, successful, transcript) ==
    [kind |-> kind, type |-> type, data |-> data, contact |-> contact,
     call_successful |-> successful, transcript |-> transcript]
NullBody    == WebhookBody("null", "none", "none", FALSE, "failure", FALSE)
IgnoredBody == WebhookBody("object", "other", "none", FALSE, "failure", FALSE)
WebhookBodies ==
    {NullBody, IgnoredBody,
     WebhookBody("text", "none", "none", FALSE, "failure", FALSE),
     WebhookBody("object", "none", "none", FALSE, "failure", FALSE),
     WebhookBody("object", "post_call_transcription", "none", FALSE, "failure", FALSE),
     WebhookBody("object", "post_call_transcription", "nofields", FALSE, "failure", FALSE)}
    \cup {WebhookBody("object", "post_call_transcription", "ok", c, o, t) :
             c \in BOOLEAN, o \in {"success", "failure"}, t \in BOOLEAN}

\* HMAC-SHA-256(key, timestamp + "." + rawBody) as an ideal MAC: equal
\* digests come from equal keys and equal messages only
Hmac(key, timestamp, rawBody) == [key |-> key, timestamp |-> timestamp, rawBody |-> rawBody]
WebhookKeys == {"secret", "guess"}
ELEVENLABS_WEBHOOK_SECRET == "secret"

\* The timestamp texts a header carries and what parseInt makes of them
TimestampTexts == {"0", "60", "abc"}
NaN == -1
parseInt(text) == CASE text = "0" -> 0 [] text = "60" -> 60 [] OTHER -> NaN

\* The elevenlabs-signature header as signature.split(',') and the
\* split('=') of its first two parts see it: the number of parts, the
\* pieces and name of each part, the timestamp text and the hash
SignatureHeader(present, parts, tPieces, tName, timestamp, hPieces, hName, hashEmpty, hash) ==
    [present |-> present, parts |-> parts, tPieces |-> tPieces, tName |-> tName,
     timestamp |-> timestamp, hPieces |-> hPieces, hName |-> hName,
     hashEmpty |-> hashEmpty, hash |-> hash]
WellFormed(timestamp, hash) == SignatureHeader(TRUE, 2, 2, "t", timestamp, 2, "v0", FALSE, hash)
\* Headers that are not of the form t=...,v0=..., each one edit away from
\* the header the provider would send for the body
Malformed(body) ==
    LET h  == Hmac(ELEVENLABS_WEBHOOK_SECRET, "0", body)
        ok == WellFormed("0", h)
    IN {[ok EXCEPT !.parts = 1], [ok EXCEPT !.parts = 3],
        [ok EXCEPT !.tPieces = 3], [ok EXCEPT !.tName = "v0", !.hName = "t"],
        [ok EXCEPT !.timestamp = ""], [ok EXCEPT !.hPieces = 1],
        [ok EXCEPT !.hName = "v1"], [ok EXCEPT !.hashEmpty = TRUE]}
SignaturesFor(body) ==
    {[WellFormed("0", Hmac("", "", body)) EXCEPT !.present = FALSE]}
    \cup Malformed(body)
    \cup UNION {{WellFormed(ts, Hmac(k, ts2, b2)) :
                     k \in WebhookKeys, ts2 \in {ts, "0"}, b2 \in {body, IgnoredBody}} :
                  ts \in TimestampTexts}
WebhookRequests == UNION {{[body |-> b, sig |-> sg] : sg \in SignaturesFor(b)} : b \in WebhookBodies}

\* timestampTooOld rejecting a timestamp exactly at the tolerance as well
timestampTooOldInclusive(timestampInt, time) ==
    timestampInt <= time - SIGNATURE_TOLERANCE_MINUTES * SecondsPerMinute
\* tolerance = Math.floor(Date.now() / 1000) - SIGNATURE_TOLERANCE_MINUTES * 60;
\* timestampInt < tolerance.  time is Math.floor(Date.now() / 1000).
timestampTooOld(timestampInt, time) ==
    timestampInt < time - SIGNATURE_TOLERANCE_MINUTES * SecondsPerMinute

\* verifySignature without the comparison of the hashes
verifySignatureNoHmac(sig, rawBody, time) ==
    IF ~sig.present THEN "missing"
    ELSE IF \/ sig.parts # 2
            \/ sig.tPieces # 2 \/ sig.tName # "t"
            \/ sig.hPieces # 2 \/ sig.hName # "v0"
            \/ sig.timestamp = "" \/ sig.hashEmpty
    THEN "parse"
    ELSE IF parseInt(sig.timestamp) = NaN \/ timestampTooOld(parseInt(sig.timestamp), time)
    THEN "timestamp"
    ELSE "ok"
\* STEP 2 of the handler: the check that fails first, or "ok"
verifySignature(sig, rawBody, time) ==
    IF ~sig.present THEN "missing"
    ELSE IF \/ sig.parts # 2
            \/ sig.tPieces # 2 \/ sig.tName # "t"
            \/ sig.hPieces # 2 \/ sig.hName # "v0"
            \/ sig.timestamp = "" \/ sig.hashEmpty
    THEN "parse"
    ELSE IF parseInt(sig.timestamp) = NaN \/ timestampTooOld(parseInt(sig.timestamp), time)
    THEN "timestamp"
    ELSE IF sig.hash # Hmac(ELEVENLABS_WEBHOOK_SECRET, sig.timestamp, rawBody)
    THEN "hmac"
    ELSE "ok"

SignatureNotification(verdict) ==
    CASE verdict = "missing"   -> "ElevenLabs Webhook - Missing Signature"
      [] verdict = "parse"     -> "ElevenLabs Webhook - Signature Parse Error"
      [] verdict = "timestamp" -> "ElevenLabs Webhook - Timestamp Validation Error"
      [] verdict = "hmac"      -> "ElevenLabs Webhook - HMAC Validation Failed"

\* The analysis awaited inside the handler: it has run when the response goes out
dispatchAnalysisAwaited == "done"
\* setImmediate(async () => executePostCallAnalysis(...)): the callback is
\* queued and runs once the handler's current stretch, which ends with the
\* reply, is over
dispatchAnalysis == "scheduled"

\* The handler's way through a request: STEP 1 body validation, STEP 2
\* signature, STEP 3 type and data, STEPs 4-8 note, calls row and
\* notification, STEP 9 analysis, STEP 10 the 200
WebhookOutcome(req, secretSet, analysisEnabled, time, callRecord, noteOk, dbOk) ==
    LET body    == req.body
        verdict == IF secretSet THEN verifySignature(req.sig, body, time) ELSE "ok"
        warned  == IF secretSet THEN {} ELSE {"ElevenLabs Webhook - No Security Configured"}
        out(step, code, notes, effects, analysis) ==
            [step |-> step, code |-> code, notes |-> notes, effects |-> effects, analysis |-> analysis]
    IN IF body.kind = "null"
       THEN out("body", 400, {"ElevenLabs Webhook - Missing Request Body"}, {}, "none")
       ELSE IF body.kind # "object"
       THEN out("body", 400, {"ElevenLabs Webhook - Invalid Request Body"}, {}, "none")
       ELSE IF verdict # "ok"
       THEN out("signature", 401, {SignatureNotification(verdict)}, {}, "none")
       ELSE IF body.type = "none"
       THEN out("type", 500, warned \cup {"CRITICAL: ElevenLabs Webhook Processing Failed"}, {}, "none")
       ELSE IF body.type # "post_call_transcription"
       THEN out("type", 200, warned \cup {"ElevenLabs Webhook - Unsupported Type"}, {}, "none")
       ELSE IF body.data # "ok"
       THEN out("data", 500, warned \cup {"CRITICAL: ElevenLabs Webhook Processing Failed"}, {}, "none")
       ELSE out("processed", 200,
                warned \cup {"Chiamata AI Completata"}
                       \cup (IF dbOk THEN {} ELSE {"ElevenLabs Webhook - Database Error"}),
                (IF body.contact /\ noteOk THEN {"ghl_note"} ELSE {})
                       \cup (IF callRecord /\ dbOk THEN {"calls_update"} ELSE {}),
                IF /\ analysisEnabled
                   /\ body.call_successful = "success"
                   /\ body.transcript
                   /\ body.contact
                THEN dispatchAnalysis ELSE "none")

NoWebhookRequest ==
    [body |-> NullBody, sig |-> [WellFormed("0", Hmac("", "", NullBody)) EXCEPT !.present = FALSE]]
\* No request yet: the clock reading, the configuration (secretSet:
\* ELEVENLABS_WEBHOOK_SECRET is set, analysisEnabled: ENABLE_POST_CALL_ANALYSIS);
\* runs: the times executePostCallAnalysis was begun
WebhookStart(secretSet, analysisEnabled) ==
    [time |-> 0, ticks |-> 0, n |-> 0, secretSet |-> secretSet, analysisEnabled |-> analysisEnabled,
     req |-> NoWebhookRequest, step |-> "-", resp |-> 0, notes |-> {}, effects |-> {},
     analysis |-> "none", accepted |-> FALSE, runs |-> 0]
WebhookIdle == webhook = WebhookStart(TRUE, TRUE)

\* One delivery of req, from its arrival to its response.  accepted: an
\* earlier delivery of the same request was answered 200.
WebhookDeliver(req, again) ==
    /\ webhook.n < MaxWebhooks
    /\ webhook.analysis \notin {"scheduled", "running"}
    /\ \E callRecord \in BOOLEAN, noteOk \in Outcomes, dbOk \in Outcomes :
         LET out == WebhookOutcome(req, webhook.secretSet, webhook.analysisEnabled, webhook.time,
                                   callRecord, noteOk, dbOk)
         IN /\ noteOk \/ dbOk
            /\ out.step # "processed" => callRecord /\ noteOk /\ dbOk
            /\ faults' = Spend(noteOk /\ dbOk)
            /\ webhook' = [webhook EXCEPT !.n = @ + 1, !.req = req, !.step = out.step,
                                          !.resp = out.code, !.notes = out.notes,
                                          !.effects = out.effects, !.analysis = out.analysis,
                                          !.accepted = again /\ webhook.resp = 200]
    /\ UNCHANGED <<now, call_queue, nextQueueId, calls, twilio, tickers, handlers, retryLog, intake, posts>>
    /\ UNCHANGED <<booking, followups, auxVars>>

\* A request arrives
WebhookNew ==
    /\ webhook.n = 0
    /\ \E req \in WebhookRequests : WebhookDeliver(req, FALSE)

\* The request delivered last arrives again, byte for byte
WebhookReplay ==
    /\ webhook.n > 0
    /\ WebhookDeliver(webhook.req, TRUE)

\* The event loop runs the queued callback: executePostCallAnalysis begins
AnalysisStart ==
    /\ webhook.analysis = "scheduled"
    /\ webhook' = [webhook EXCEPT !.analysis = "running",
                                  !.runs = @ + 1,
                                  !.effects = @ \cup {"post_call_analysis"}]
    /\ UNCHANGED <<now, call_queue, nextQueueId, calls, twilio, tickers, handlers, retryLog, intake, posts, faults>>
    /\ UNCHANGED <<booking, followups, auxVars>>

\* executePostCallAnalysis resolves, or rejects and is reported
AnalysisEnd ==
    /\ webhook.analysis = "running"
    /\ \E ok \in BOOLEAN :
         webhook' = [webhook EXCEPT !.analysis = IF ok THEN "done" ELSE "failed",
                                    !.notes = IF ok THEN @ ELSE @ \cup {"Post-Call Analysis Failed"}]
    /\ UNCHANGED <<now, call_queue, nextQueueId, calls, twilio, tickers, handlers, retryLog, intake, posts, faults>>
    /\ UNCHANGED <<booking, followups, auxVars>>

\* The clock the handler reads moves on: by a second, a minute, or the tolerance
ClockSteps == {1, SecondsPerMinute, SIGNATURE_TOLERANCE_MINUTES * SecondsPerMinute}
WebhookTick ==
    /\ webhook.ticks < MaxWebhookTicks
    /\ \E d \in ClockSteps :
         webhook' = [webhook EXCEPT !.ticks = @ + 1, !.time = @ + d]
    /\ UNCHANGED <<now, call_queue, nextQueueId, calls, twilio, tickers, handlers, retryLog, intake, posts, faults>>
    /\ UNCHANGED <<booking, followups, auxVars>>

\* ------------------------------------------------- POST /bookAppointment
\* Instants are whole hours; Hour(d, h) is hour h of UTC day d
Hour(d, h) == d * HoursPerDay + h
UTCDate(t) == t \div HoursPerDay

\* The ascending sequence of a set of instants (Array#sort by date)
RECURSIVE SortSlots(_)
SortSlots(S) ==
    IF S = {} THEN <<>>
    ELSE LET m == CHOOSE x \in S : \A y \in S : x <= y
         IN <<m>> \o SortSlots(S \ {m})

SeqRange(q) == {q[i] : i \in DOMAIN q}
Slice(q, n) == SubSeq(q, 1, IF Len(q) < n THEN Len(q) ELSE n)

\* italianLocalToUTC(dateStr, timeStr): the offset is the Europe/Rome hour
\* of the same wall-clock reading taken as UTC, minus hours
italianLocalToUTC(day, hours) ==
    LET italianHourForTempUTCDate == (hours + RomeUtcOffset) % HoursPerDay
        offsetInHours  == italianHourForTempUTCDate - hours
        targetUTCHours == hours - offsetInHours
    IN Hour(day, targetUTCHours)

\* appointmentDate as the handler's checks see it: absent, or its layout
\* ("one part": no blank between date and time; a time not HH:mm; a date in
\* neither layout; DD-MM-YYYY or YYYY-MM-DD), and the local day and hour
AppointmentDate(form, day, hours) == [form |-> form, day |-> day, hours |-> hours]
ParsedForms == {"DD-MM-YYYY HH:mm", "YYYY-MM-DD HH:mm"}
AppointmentDates ==
    {AppointmentDate(f, 1, 15) : f \in {"", "one part", "bad time", "bad date"}}
    \cup {AppointmentDate(f, 1, h) : f \in ParsedForms, h \in {0, 15}}
BookingRequests == [appointmentDate : AppointmentDates, contactId : BOOLEAN, userId : {"", "U1"}]

\* The free slots the CRM may hold, as UTC instants
SlotCandidates == {Hour(1, 8), Hour(1, 9), Hour(1, 10), Hour(1, 15), Hour(2, 9), Hour(3, 9), Hour(7, 12)}

\* GET /calendars/:id/free-slots?startDate&endDate
FreeSlotsBetween(free, startDate, endDate) == {sl \in free : startDate <= sl /\ sl <= endDate}

\* fetchGHLCalendarSlots: null on a token or API error, else every slot found
fetchGHLCalendarSlots(free, startDate, endDate, apiOk) ==
    [null |-> ~apiOk,
     slots |-> IF apiOk THEN SortSlots(FreeSlotsBetween(free, startDate, endDate)) ELSE <<>>]

\* fetchGHLCalendarSlotsForUsers: null on a token or API error, else the
\* slots found, sorted, of which "only the first 3 slots" are returned
fetchGHLCalendarSlotsForUsers(free, startDate, endDate, apiOk) ==
    [null |-> ~apiOk,
     slots |-> IF apiOk
               THEN Slice(SortSlots(FreeSlotsBetween(free, startDate, endDate)), UserSlotsLimit)
               ELSE <<>>]

\* findAndFormatAlternativesForTwoDays(originalFailedSlotUTC, userIdForAlternatives)
findAndFormatAlternativesForTwoDays(originalFailedSlotUTC, userId, free, apiOk) ==
    LET searchStartBaseUTC == Hour(UTCDate(originalFailedSlotUTC), 0)
        searchWindowEndUTC == searchStartBaseUTC + AlternativesWindowDays * HoursPerDay
        rawSlots == IF userId # ""
                    THEN fetchGHLCalendarSlotsForUsers(free, searchStartBaseUTC, searchWindowEndUTC, apiOk)
                    ELSE fetchGHLCalendarSlots(free, searchStartBaseUTC, searchWindowEndUTC, apiOk)
        allSlotDates == {sl \in SeqRange(rawSlots.slots) : sl >= originalFailedSlotUTC}
        availableUTCDates == SortSlots({UTCDate(sl) : sl \in allSlotDates})
        firstTwo == SeqRange(SubSeq(availableUTCDates, 1,
                                    IF Len(availableUTCDates) < 2 THEN Len(availableUTCDates) ELSE 2))
    IN IF rawSlots.null \/ rawSlots.slots = <<>> THEN <<>>
       ELSE SortSlots({sl \in allSlotDates : UTCDate(sl) \in firstTwo})

\* alternatives.length > 0
alternativesAvailable(alternatives) == Len(alternatives) > 0

\* The handler's way through a request.  crm: what bookGHLAppointment or
\* bookGHLAppointmentWithUser does ("booked", "failed": success false,
\* "throws"); apiOk: whether the free-slots request succeeds.
BookingOutcome(req, free, crm, apiOk) ==
    LET date == req.appointmentDate
        targetSlotStartUTC == italianLocalToUTC(date.day, date.hours)
        alternatives == findAndFormatAlternativesForTwoDays(targetSlotStartUTC, req.userId, free, apiOk)
        out(code, status, notes, slots) ==
            [code |-> code, status |-> status, notes |-> notes, slots |-> slots,
             requested |-> IF date.form \in ParsedForms THEN targetSlotStartUTC ELSE -1]
    IN IF date.form = "" \/ ~req.contactId
       THEN out(400, "error", {"BookAppointment - Missing Parameters"}, <<>>)
       ELSE IF date.form \notin ParsedForms
       THEN out(400, "error", {}, <<>>)
       ELSE IF crm = "throws"
       THEN out(500, "error", {"/bookAppointment Critical Error"}, <<>>)
       ELSE IF crm = "booked"
       THEN out(201, "success", {}, <<>>)
       ELSE IF alternativesAvailable(alternatives)
       THEN out(200, "booking_failed_alternatives_available", {"GHL Outbound Booking Failed"}, alternatives)
       ELSE out(409, "booking_failed_no_alternatives", {"GHL Outbound Booking Failed"}, <<>>)

NoBookingRequest == [appointmentDate |-> AppointmentDate("", 1, 15), contactId |-> FALSE, userId |-> ""]
\* No request yet; free: the free slots in the CRM calendar
BookingStart(free) ==
    [n |-> 0, free |-> free, req |-> NoBookingRequest, crm |-> "-", apiOk |-> TRUE,
     code |-> 0, status |-> "-", notes |-> {}, slots |-> <<>>, requested |-> -1]
BookingIdle == booking = BookingStart({})

\* Whether the handler gets as far as the CRM, and as the free-slots request
ReachesCrm(req) == req.appointmentDate.form \in ParsedForms /\ req.contactId

\* One request, from its arrival to its response
BookAppointment(req, crm, apiOk) ==
    /\ booking.n < MaxBookings
    /\ ~ReachesCrm(req) => crm = "booked"
    /\ crm # "failed" => apiOk
    /\ LET out == BookingOutcome(req, booking.free, crm, apiOk)
       IN booking' = [booking EXCEPT !.n = @ + 1, !.req = req,
                                     !.crm = IF ReachesCrm(req) THEN crm ELSE "-",
                                     !.apiOk = apiOk,
                                     !.free = IF out.code = 201 THEN @ \ {out.requested} ELSE @,
                                     !.code = out.code, !.status = out.status,
                                     !.notes = out.notes, !.slots = out.slots,
                                     !.requested = out.requested]
    /\ UNCHANGED <<now, call_queue, nextQueueId, calls, twilio, tickers, handlers, retryLog, intake, posts, faults, webhook, followups, auxVars>>

\* ------------------------------------------------------ follow-up processor

\* follow_up_at_utc of a row, in hours from the processor's start
FollowUpTimes == {0 - 30, 0, 2}
FollowUpRow(id, at) == [follow_up_id |-> id, follow_up_at_utc |-> at]
FollowUpTables ==
    UNION {{{FollowUpRow(i, at[i]) : i \in ids} : at \in [ids -> FollowUpTimes]} :
           ids \in SUBSET (1..MaxFollowUps)}
RowIds(rows) == {r.follow_up_id : r \in rows}

\* What the loop finds before it resubmits: getGHLContactDetails returns null
\* or no phone, no service is saved or found, the service is not an allowed
\* one, an await throws, or the payload is ready
Preparations == {"no contact", "no phone", "no service", "invalid service", "throws", "ready"}

\* The five texts isPermanentFailure looks for in the response body
PermanentFailureMessages ==
    {"No sales representatives available", "service and location", "not in right area",
     "Address is required", "service field is required"}
\* A response body, as the set of those texts it includes
ResponseBodies ==
    {{}, {"Address is required"}, {"No sales representatives available", "service and location"}}
\* What fetch(OUTBOUND_CALL_ENDPOINT) gives: a response, or a throw
FetchResult(kind, status, body) == [kind |-> kind, status |-> status, body |-> body]
NoFetch == FetchResult("-", 0, {})
FetchResults ==
    {FetchResult("response", st, b) : st \in {200, 202, 400, 404, 500}, b \in ResponseBodies}
    \cup {FetchResult(k, 0, {}) : k \in {"timeout", "network error"}}

\* response.ok
ResponseOk(response) == 200 <= response.status /\ response.status <= 299

\* isPermanentFailure without the test of the status
isPermanentFailureAnyStatus(response) == response.body \cap PermanentFailureMessages # {}
\* response.status === 400 && (errorBody.includes(...) || ...)
isPermanentFailure(response) ==
    response.status = 400 /\ response.body \cap PermanentFailureMessages # {}

\* One pass of the loop of checkAndProcessFollowUps over a due follow-up:
\* whether the intake was called, whether deleteFollowUp was, and the
\* notifications
ProcessFollowUp(prep, response) ==
    LET out(resubmitted, delete, notes) ==
            [resubmitted |-> resubmitted, delete |-> delete, notes |-> notes]
    IN IF prep \in {"no contact", "no phone", "no service", "invalid service"}
       THEN out(FALSE, TRUE, {"FollowUp Processing Warning"})
       ELSE IF prep = "throws"
       THEN out(FALSE, FALSE, {"FollowUp Processing Error"})
       ELSE IF response.kind # "response"
       THEN out(TRUE, FALSE, {"FollowUp Processing Error"})
       ELSE IF ResponseOk(response)
       THEN out(TRUE, TRUE, {})
       ELSE IF isPermanentFailure(response)
       THEN out(TRUE, TRUE, {"FollowUp Permanently Failed - Deleted"})
       ELSE out(TRUE, FALSE, {"FollowUp Temporary Failure - Will Retry"})

\* deleteFollowUp: the row goes unless the statement fails, which is reported
\* and swallowed
deleteFollowUp(rows, id, dbOk) == IF dbOk THEN {r \in rows : r.follow_up_id # id} ELSE rows
DeleteNotes(dbOk) == IF dbOk THEN {} ELSE {"FollowUp DB Error"}

NoFollowUp == [id |-> 0, prep |-> "-", response |-> NoFetch, resubmitted |-> FALSE,
               delete |-> FALSE, dbOk |-> TRUE, notes |-> {}]
\* What the last cleanupStuckFollowUps did: whether its query succeeded, the
\* rows it notified of and the rows it deleted
NoCleanup == [ok |-> TRUE, notified |-> {}, removed |-> {}]
\* The sweep POST /followup/trigger runs: no request ("off"), a request about
\* to be handled ("ready"), its loop, its response ("done")
NoTrigger == [pc |-> "off", due |-> {}, sent |-> {}]
\* failed: the pending follow-ups whose resubmission has failed so far (no column of
\* follow_ups keeps this; it is kept here to state properties); sent: the
\* follow-ups a sweep has resubmitted since it began, dropped once the sweep is
\* over and another begins (kept only when there is a request for a triggered
\* sweep)
FollowUpStart(rows) ==
    [rows |-> rows, clock |-> 0, n |-> 0, pc |-> "idle", due |-> {}, last |-> NoFollowUp,
     failed |-> {}, cleanup |-> NoCleanup, sent |-> {}, trigger |-> NoTrigger]
FollowUpIdle == followups = FollowUpStart({})

\* cleanupStuckFollowUps: rows due more than 24 hours ago are deleted
StuckFollowUps(rows, clock) == {r \in rows : r.follow_up_at_utc < clock - StuckAfterHours}
\* getDueFollowUps: the pending rows due by now, none when the query fails
getDueFollowUps(rows, clock, dbOk) ==
    IF dbOk THEN {r.follow_up_id : r \in {x \in rows : x.follow_up_at_utc <= clock}} ELSE {}

\* checkAndProcessFollowUps, up to the loop
SweepStart(cleanupOk, dbOk) ==
    /\ followups.pc = "idle"
    /\ followups.n < MaxSweeps
    /\ followups.clock = followups.n
    /\ LET stuck == IF cleanupOk
                    THEN StuckFollowUps(followups.rows, followups.clock)
                    ELSE {}
           kept == followups.rows \ stuck
           due  == getDueFollowUps(kept, followups.clock, dbOk)
       IN followups' = [followups EXCEPT !.rows = kept, !.n = @ + 1, !.due = due,
                                         !.pc = IF due = {} THEN "idle" ELSE "loop",
                                         !.last = NoFollowUp,
                                         !.failed = @ \cap RowIds(kept),
                                         !.sent = {},
                                         !.trigger = IF @.pc = "loop" THEN @
                                                     ELSE [@ EXCEPT !.sent = {}],
                                         !.cleanup = [ok |-> cleanupOk,
                                                      notified |-> RowIds(stuck),
                                                      removed |-> RowIds(stuck)]]
    /\ UNCHANGED <<now, call_queue, nextQueueId, calls, twilio, tickers, handlers, retryLog, intake, posts, faults, webhook, booking, auxVars>>

\* One pass of the loop
SweepProcess(id, prep, response, dbOk) ==
    /\ followups.pc = "loop"
    /\ id \in followups.due
    /\ prep # "ready" => response = NoFetch
    /\ prep = "ready" => response \in FetchResults
    /\ LET out  == ProcessFollowUp(prep, response)
           due  == followups.due \ {id}
       IN /\ ~out.delete => dbOk
          /\ followups' = [followups EXCEPT
                 !.rows = IF out.delete THEN deleteFollowUp(@, id, dbOk) ELSE @,
                 !.due = due,
                 !.pc = IF due = {} THEN "idle" ELSE "loop",
                 !.failed = (IF out.resubmitted /\ ~(response.kind = "response" /\ ResponseOk(response))
                             THEN @ \cup {id} ELSE @)
                            \cap RowIds(IF out.delete THEN deleteFollowUp(followups.rows, id, dbOk)
                                        ELSE followups.rows),
                 !.sent = IF out.resubmitted /\ followups.trigger.pc # "off" THEN @ \cup {id} ELSE @,
                 !.last = [id |-> id, prep |-> prep, response |-> response,
                           resubmitted |-> out.resubmitted, delete |-> out.delete, dbOk |-> dbOk,
                           notes |-> out.notes \cup (IF out.delete THEN DeleteNotes(dbOk) ELSE {})]]
    /\ UNCHANGED <<now, call_queue, nextQueueId, calls, twilio, tickers, handlers, retryLog, intake, posts, faults, webhook, booking, auxVars>>

\* POST /followup/trigger: checkAndProcessFollowUps, up to the loop, whatever
\* the timer's sweep is doing
TriggerStart(cleanupOk, dbOk) ==
    /\ followups.trigger.pc = "ready"
    /\ LET stuck == IF cleanupOk
                    THEN StuckFollowUps(followups.rows, followups.clock)
                    ELSE {}
           kept == followups.rows \ stuck
           due  == getDueFollowUps(kept, followups.clock, dbOk)
       IN followups' = [followups EXCEPT !.rows = kept,
                                         !.trigger = [pc |-> IF due = {} THEN "done" ELSE "loop",
                                                      due |-> due, sent |-> {}],
                                         !.failed = @ \cap RowIds(kept),
                                         !.sent = IF followups.pc = "loop" THEN @ ELSE {},
                                         !.cleanup = [ok |-> cleanupOk,
                                                      notified |-> RowIds(stuck),
                                                      removed |-> RowIds(stuck)]]
    /\ UNCHANGED <<now, call_queue, nextQueueId, calls, twilio, tickers, handlers, retryLog, intake, posts, faults, webhook, booking, auxVars>>

\* One pass of the loop of the triggered sweep (last keeps what the timer's
\* sweep processed)
TriggerProcess(id, prep, response, dbOk) ==
    /\ followups.trigger.pc = "loop"
    /\ id \in followups.trigger.due
    /\ prep # "ready" => response = NoFetch
    /\ prep = "ready" => response \in FetchResults
    /\ LET out  == ProcessFollowUp(prep, response)
           due  == followups.trigger.due \ {id}
       IN /\ ~out.delete => dbOk
          /\ followups' = [followups EXCEPT
                 !.rows = IF out.delete THEN deleteFollowUp(@, id, dbOk) ELSE @,
                 !.trigger = [pc |-> IF due = {} THEN "done" ELSE "loop", due |-> due,
                              sent |-> IF out.resubmitted THEN @.sent \cup {id} ELSE @.sent],
                 !.failed = (IF out.resubmitted /\ ~(response.kind = "response" /\ ResponseOk(response))
                             THEN @ \cup {id} ELSE @)
                            \cap RowIds(IF out.delete THEN deleteFollowUp(followups.rows, id, dbOk)
                                        ELSE followups.rows)]
    /\ UNCHANGED <<now, call_queue, nextQueueId, calls, twilio, tickers, handlers, retryLog, intake, posts, faults, webhook, booking, auxVars>>

\* The interval between two sweeps (FOLLOW_UP_INTERVAL_MS, an hour)
SweepWait ==
    /\ followups.pc = "idle"
    /\ followups.clock < followups.n
    /\ followups.n < MaxSweeps
    /\ followups' = [followups EXCEPT !.clock = @ + 1]
    /\ UNCHANGED <<now, call_queue, nextQueueId, calls, twilio, tickers, handlers, retryLog, intake, posts, faults, webhook, booking, auxVars>>

\* ------------------------------------------------------ province extraction
\* The matches of a regular expression with the g flag, in the order of the
\* text, kept up to MaxMatches
Matches(S) == UNION {[1..n -> S] : n \in 0..MaxMatches}

\* validProvinceCodes, and the same list again as validCodes in the LLM strategy
validProvinceCodes ==
    {"AG", "AL", "AN", "AO", "AR", "AP", "AT", "AV", "BA", "BT", "BL", "BN", "BG", "BI", "BO", "BZ", "BS", "BR",
     "CA", "CL", "CB", "CI", "CE", "CT", "CZ", "CH", "CO", "CS", "CR", "KR", "CN", "EN", "FM", "FE", "FI", "FG",
     "FC", "FR", "GE", "GO", "GR", "IM", "IS", "SP", "AQ", "LT", "LE", "LC", "LI", "LO", "LU", "MC", "MN", "MS",
     "MT", "VS", "ME", "MI", "MO", "MB", "NA", "NO", "NU", "OG", "OT", "OR", "PD", "PA", "PR", "PV", "PG", "PU",
     "PE", "PC", "PI", "PT", "PN", "PZ", "PO", "RG", "RA", "RC", "RE", "RI", "RN", "RM", "RO", "SA", "SS", "SV",
     "SI", "SO", "SR", "TA", "TE", "TR", "TO", "TP", "TN", "TV", "TS", "UD", "VA", "VE", "VB", "VC", "VR", "VV", "VI", "VT"}

\* JavaScript's null
Null == "null"

\* An address, by what the extraction reads of it: whether it is a non-empty
\* string, whether a placeholder pattern matches it, its words of two letters
\* (/\b([A-Z]{2})\b/g of the upper-cased text) and its groups of five digits
\* (/\b(\d{5})\b/g)
TwoLetterWords == {"RM", "DI", "SU"}
Caps           == {"00184", "09013"}
Addresses ==
    [string : {TRUE}, placeholder : BOOLEAN, words : Matches(TwoLetterWords), zips : Matches(Caps)]
        \cup {[string |-> FALSE, placeholder |-> FALSE, words |-> <<>>, zips |-> <<>>]}
NoAddress == [string |-> FALSE, placeholder |-> FALSE, words |-> <<"-">>, zips |-> <<>>]

\* The cells of column C (PROVINCIA) of the spreadsheet; "" is a missing cell
Cells == {"", " rm ", "SU", "Roma"}
trim(s)        == IF s = " rm " THEN "rm" ELSE s
toUpperCase(s) == CASE s = "rm" -> "RM" [] s = "Roma" -> "ROMA" [] OTHER -> s

\* What the spreadsheet answers: its rows by CAP, no rows, or an error
SheetAnswers ==
    [outcome : {"rows"}, rows : [Caps -> Cells]]
        \cup [outcome : {"empty", "throws"}, rows : {[c \in Caps |-> ""]}]
NoSheet == [outcome |-> "-", rows |-> [c \in Caps |-> ""]]

\* The LLM's answer: the words of two letters of its upper-cased text, or an error
GeminiReplies == [throws : {FALSE}, words : Matches(TwoLetterWords)] \cup {[throws |-> TRUE, words |-> <<>>]}
NoReply       == [throws |-> FALSE, words |-> <<"-">>]

EmptyCache == [c \in Caps |-> Null]

\* The first element of a sequence of matches that f maps to a value, or null
RECURSIVE FirstFound(_, _)
FirstFound(ms, f) ==
    IF ms = <<>> THEN Null
    ELSE IF f[Head(ms)] # Null THEN f[Head(ms)]
    ELSE FirstFound(Tail(ms), f)

\* fetchZipCodeProvinceMapping: the cache after the call, which is also the
\* mapping the call returns
fetchZipCodeProvinceMapping(cache, fresh, sheet) ==
    IF cache # EmptyCache /\ fresh THEN cache
    ELSE IF sheet.outcome # "rows" THEN cache
    ELSE [c \in Caps |->
            LET provincia      == sheet.rows[c]
                cleanProvincia == toUpperCase(trim(provincia))
            IN IF provincia # "" /\ Len(cleanProvincia) = 2 THEN cleanProvincia ELSE Null]

extractProvinceFromZipCode(address, zipCodeMapping) ==
    FirstFound(address.zips, zipCodeMapping)

extractDirectProvinceCode(address) ==
    FirstFound(address.words, [w \in TwoLetterWords |-> IF w \in validProvinceCodes THEN w ELSE Null])

extractProvinceViaGemini(keySet, reply) ==
    IF ~keySet \/ reply.throws \/ reply.words = <<>> THEN Null
    ELSE IF Head(reply.words) \in validProvinceCodes THEN Head(reply.words)
    ELSE Null

\* extractProvinceFromAddress: the province returned and the strategy that
\* returned it
extractProvinceFromAddress(address, zipCodeMapping, keySet, reply) ==
    IF ~address.string \/ address.placeholder THEN [result |-> Null, strategy |-> "none"]
    ELSE LET directCode      == extractDirectProvinceCode(address)
             zipCodeProvince == extractProvinceFromZipCode(address, zipCodeMapping)
             geminiProvince  == extractProvinceViaGemini(keySet, reply)
         IN IF directCode # Null THEN [result |-> directCode, strategy |-> "direct"]
            ELSE IF zipCodeProvince # Null THEN [result |-> zipCodeProvince, strategy |-> "zip"]
            ELSE IF geminiProvince # Null THEN [result |-> geminiProvince, strategy |-> "gemini"]
            ELSE [result |-> Null, strategy |-> "none"]

ProvinceStart(keySet, cache) ==
    [pc |-> "ready", keySet |-> keySet, cache |-> cache, address |-> NoAddress, sheet |-> NoSheet, reply |-> NoReply,
     result |-> Null, strategy |-> "-"]
ProvinceIdle == extraction = ProvinceStart(FALSE, EmptyCache)

\* Whether the extraction reaches the ZIP strategy's spreadsheet, and the LLM
ReachesSheet(address) ==
    /\ address.string /\ ~address.placeholder
    /\ extractDirectProvinceCode(address) = Null
    /\ address.zips # <<>>
ReachesGemini(address, zipCodeMapping) ==
    /\ address.string /\ ~address.placeholder
    /\ extractDirectProvinceCode(address) = Null
    /\ extractProvinceFromZipCode(address, zipCodeMapping) = Null
    /\ extraction.keySet

\* A call of extractProvinceFromAddress; fresh: the cache is younger than
\* CACHE_DURATION_MS
ExtractProvince(address, fresh) ==
    /\ extraction.pc = "ready"
    /\ LET reads   == ReachesSheet(address)
           cached  == reads /\ extraction.cache # EmptyCache /\ fresh
       IN /\ fresh => cached
          /\ \E sheet \in IF reads /\ ~cached THEN SheetAnswers ELSE {NoSheet} :
               LET mapping == IF reads THEN fetchZipCodeProvinceMapping(extraction.cache, fresh, sheet)
                              ELSE extraction.cache
               IN \E reply \in IF ReachesGemini(address, mapping) THEN GeminiReplies ELSE {NoReply} :
                    LET out == extractProvinceFromAddress(address, mapping, extraction.keySet, reply)
                    IN extraction' = [extraction EXCEPT !.pc = "done", !.cache = mapping, !.address = address,
                                                        !.sheet = sheet, !.reply = reply,
                                                        !.result = out.result, !.strategy = out.strategy]
    /\ UNCHANGED <<now, call_queue, nextQueueId, calls, twilio, tickers, handlers, retryLog, intake, posts, faults, webhook, booking, followups, slotPick, database, bridge, recovery>>

\* ------------------------------------------------------ slot text round trip
\* The slots the CRM's calendar answers: an instant, and the rep it belongs
\* to when the answer names one
UserIds     == {"u1", "u2", "u3", "u4"}
SlotInstants == {[day |-> 1, hour |-> 10], [day |-> 2, hour |-> 9]}
GhlSlots    == {[day |-> i.day, hour |-> i.hour, userId |-> u] : i \in SlotInstants, u \in UserIds \cup {Null}}
SlotLists   ==
    UNION {{q \in [1..n -> GhlSlots] : \A i, j \in 1..n : q[i] = q[j] => i = j} : n \in 1..MaxSlots}

\* The separator intake joins the lines with and starts some lines with (the
\* two characters backslash and n), and the line feed a regular expression
\* means by \n
Separator == "\\n"
LineFeed  == "\n"

codes == <<"A", "B", "C">>
NoCode == "-"

\* The elements of a sequence in the order of their first appearance (a Set
\* of JavaScript, the keys of an object)
RECURSIVE Unique(_)
Unique(q) ==
    IF q = <<>> THEN <<>>
    ELSE LET front == Unique(SubSeq(q, 1, Len(q) - 1))
             x     == q[Len(q)]
         IN IF x \in SeqRange(front) THEN front ELSE Append(front, x)

IndexOf(q, x) == CHOOSE i \in DOMAIN q : q[i] = x

RECURSIVE MapSeq(_, _)
MapSeq(q, f) == IF q = <<>> THEN <<>> ELSE <<f[Head(q)]>> \o MapSeq(Tail(q), f)

RECURSIVE Flatten(_)
Flatten(qq) == IF qq = <<>> THEN <<>> ELSE Head(qq) \o Flatten(Tail(qq))

\* Array#sort with a comparator on the time alone: stable, ascending
SortByTime(entries) ==
    LET hours == SortSlots({entries[i].hour : i \in DOMAIN entries})
    IN Flatten([k \in DOMAIN hours |-> SelectSeq(entries, LAMBDA e : e.hour = hours[k])])

\* A line of the slot text
DateLine(day, entries, indent) ==
    [kind |-> "date", day |-> day, entries |-> entries, code |-> NoCode, userId |-> Null, prefix |-> indent]
TextLine(kind, code, userId, prefix) ==
    [kind |-> kind, day |-> 0, entries |-> <<>>, code |-> code, userId |-> userId, prefix |-> prefix]

uniqueUserIds(fetched) ==
    Unique(SelectSeq([i \in DOMAIN fetched |-> fetched[i].userId], LAMBDA u : u # Null))

\* The short code of a rep in the 2-3-rep format
userIdMap(fetched, userId) ==
    IF userId = Null THEN NoCode ELSE codes[IndexOf(uniqueUserIds(fetched), userId)]

\* The lines "<header>: <times>" of the slots of a list, by ascending date
DateLines(slots, coded, fetched, indent) ==
    LET sortedDateKeys == SortSlots({slots[i].day : i \in DOMAIN slots})
        Times(day)     == LET group == SelectSeq(slots, LAMBDA s : s.day = day)
                          IN [i \in DOMAIN group |->
                                [hour |-> group[i].hour,
                                 code |-> IF coded THEN userIdMap(fetched, group[i].userId) ELSE NoCode]]
    IN [k \in DOMAIN sortedDateKeys |->
          DateLine(sortedDateKeys[k], SortByTime(Times(sortedDateKeys[k])), indent)]

\* The slot text intake stores with the queue row: formattedLines and the
\* separator they are joined with
FormatSlots(fetched) ==
    LET reps == uniqueUserIds(fetched)
    IN [sep |-> Separator,
        lines |->
          IF Len(reps) = 1
            THEN Append(DateLines(fetched, FALSE, fetched, ""), TextLine("trailer", NoCode, reps[1], Separator))
          ELSE IF Len(reps) <= 3
            THEN DateLines(fetched, TRUE, fetched, "")
                   \o <<TextLine("legendHead", NoCode, Null, Separator)>>
                   \o [i \in DOMAIN reps |-> TextLine("legend", codes[i], reps[i], "")]
          ELSE LET groupKey(s) == IF s.userId = Null THEN "unknown" ELSE s.userId
                   repGroups   == Unique([i \in DOMAIN fetched |-> groupKey(fetched[i])])
               IN Flatten([k \in DOMAIN repGroups |->
                     <<TextLine("rep", NoCode, repGroups[k], Separator)>>
                       \o DateLines(SelectSeq(fetched, LAMBDA s : groupKey(s) = repGroups[k]),
                                    FALSE, fetched, "  ")])]

\* The rep the slot text shows a slot of the list under: the only rep, the
\* rep of the slot's code, or the rep of the slot's section
RepInText(fetched, s) ==
    LET reps == uniqueUserIds(fetched)
    IN IF Len(reps) = 1 THEN reps[1]
       ELSE IF Len(reps) <= 3 THEN s.userId
       ELSE IF s.userId = Null THEN "unknown" ELSE s.userId

\* slotsText.match(/<abbreviation> = ([a-zA-Z0-9]+)/): the first legend entry
\* of any code
legendMatchAnyCode(text, abbreviation) ==
    LET hits == SelectSeq(text.lines, LAMBDA l : l.kind = "legend")
    IN IF hits = <<>> THEN Null ELSE hits[1].userId

\* slotsText.match(/<abbreviation> = ([a-zA-Z0-9]+)/): the first legend entry
\* of the code
legendMatch(text, abbreviation) ==
    LET hits == SelectSeq(text.lines, LAMBDA l : l.kind = "legend" /\ l.code = abbreviation)
    IN IF hits = <<>> THEN Null ELSE hits[1].userId

\* slotsText.match(/Sales Rep: ([a-zA-Z0-9]+)$/)
singleRepMatch(text) ==
    LET last == text.lines[Len(text.lines)]
    IN IF last.kind = "trailer" THEN last.userId ELSE Null

\* slotsText.match(repSectionRegex): a line feed, a rep id and a colon, a line
\* feed, and a date line that holds the time
repSectionMatch(text, timeOnly) ==
    LET hits == {i \in 1..(Len(text.lines) - 1) :
                    /\ text.sep = LineFeed
                    /\ text.lines[i].kind = "rep" /\ text.lines[i].prefix = ""
                    /\ text.lines[i + 1].kind = "date"
                    /\ \E j \in DOMAIN text.lines[i + 1].entries : text.lines[i + 1].entries[j].hour = timeOnly}
    IN IF hits = {} THEN Null ELSE text.lines[CHOOSE i \in hits : \A k \in hits : i <= k].userId

\* The userId the book_appointment handler puts into the booking payload;
\* read1 and read2: whether getCallData answered
ResolveUserId(text, appointmentDate, read1, read2) ==
    LET abbreviated == IF appointmentDate.code # NoCode /\ read1
                       THEN legendMatch(text, appointmentDate.code) ELSE Null
        single      == singleRepMatch(text)
        section     == repSectionMatch(text, appointmentDate.hour)
    IN IF abbreviated # Null THEN abbreviated
       ELSE IF ~read2 THEN Null
       ELSE IF section # Null THEN section
       ELSE single

NoText == [sep |-> Separator, lines |-> <<>>]
NoPick == [day |-> 0, hour |-> 0, code |-> NoCode]
SlotPickStart(fetched) ==
    [pc |-> "fetched", allSlots |-> fetched, text |-> NoText, appointmentDate |-> NoPick, userId |-> Null]
SlotPickIdle == slotPick = [SlotPickStart(<<>>) EXCEPT !.pc = "off"]

\* Intake renders the slots it fetched
StoreSlotsText ==
    /\ slotPick.pc = "fetched"
    /\ slotPick' = [slotPick EXCEPT !.pc = "stored", !.text = FormatSlots(slotPick.allSlots)]
    /\ UNCHANGED <<now, call_queue, nextQueueId, calls, twilio, tickers, handlers, retryLog, intake, posts, faults, webhook, booking, followups, extraction, database, bridge, recovery>>

\* The AI picks the time of a slot as the text shows it, with or without its
\* code, and calls book_appointment
BookFromText(i, keepCode, read1, read2) ==
    /\ slotPick.pc = "stored"
    /\ i \in DOMAIN slotPick.allSlots
    /\ LET s    == slotPick.allSlots[i]
           reps == uniqueUserIds(slotPick.allSlots)
           code == IF Len(reps) \in 2..3 /\ keepCode THEN userIdMap(slotPick.allSlots, s.userId) ELSE NoCode
           pick == [day |-> s.day, hour |-> s.hour, code |-> code]
       IN slotPick' = [slotPick EXCEPT !.pc = "done", !.appointmentDate = pick,
                                       !.userId = ResolveUserId(slotPick.text, pick, read1, read2)]
    /\ UNCHANGED <<now, call_queue, nextQueueId, calls, twilio, tickers, handlers, retryLog, intake, posts, faults, webhook, booking, followups, extraction, database, bridge, recovery>>

\* ------------------------------------------------- database initialization
\* The tables initializeDatabase creates, in its order, and the columns it
\* adds to them afterwards; the other columns of a table are not told apart
TableNames ==
    <<"gohighlevel_tokens", "follow_ups", "calls", "incoming_calls", "slack_installation_tokens",
      "sales_reps", "call_queue">>
AddedColumns(t) ==
    CASE t = "follow_ups"     -> {"contact_id", "status", "province", "service"}
      [] t = "calls"          -> {"first_attempt_timestamp", "service", "retry_scheduled", "province", "streamSid"}
      [] t = "incoming_calls" -> {"twilioCallSid"}
      [] t = "call_queue"     -> {"service", "province"}
      [] OTHER                -> {}
\* Those of them the CREATE TABLE statement declares already
CreatedColumns(t) ==
    CASE t = "follow_ups" -> {"contact_id", "status"}
      [] t = "calls"      -> {"first_attempt_timestamp", "service"}
      [] t = "call_queue" -> {"service"}
      [] OTHER            -> {}

\* The statements of initializeDatabase between two awaits that another run
\* can come between: per table CREATE TABLE IF NOT EXISTS with the PRAGMA
\* table_info that follows it, then the ALTER TABLEs of the columns not found
RECURSIVE ProgramFrom(_)
ProgramFrom(i) ==
    IF i > Len(TableNames) THEN <<>>
    ELSE <<[op |-> "create", table |-> TableNames[i]]>>
           \o (IF AddedColumns(TableNames[i]) = {} THEN <<>> ELSE <<[op |-> "alter", table |-> TableNames[i]]>>)
           \o ProgramFrom(i + 1)
Program == ProgramFrom(1)

\* The database file: its tables, their added columns, the number of their rows
EmptyDb ==
    [tables |-> {}, columns |-> [i \in DOMAIN TableNames |-> {}], rows |-> [i \in DOMAIN TableNames |-> 0]]
TableIndex(t) == CHOOSE i \in DOMAIN TableNames : TableNames[i] = t

\* DROP TABLE and CREATE TABLE
CreateTableAnew(db, t) ==
    [db EXCEPT !.tables = @ \cup {t}, !.columns[TableIndex(t)] = CreatedColumns(t), !.rows[TableIndex(t)] = 0]

\* CREATE TABLE IF NOT EXISTS
CreateTableIfNotExists(db, t) ==
    IF t \in db.tables THEN db
    ELSE [db EXCEPT !.tables = @ \cup {t}, !.columns[TableIndex(t)] = CreatedColumns(t), !.rows[TableIndex(t)] = 0]

\* PRAGMA table_info(t), as far as the added columns go
TableInfo(db, t) == db.columns[TableIndex(t)]

\* ALTER TABLE t ADD COLUMN for each column of a set: the database afterwards
\* and the columns SQLite refuses with "duplicate column name"
AlterTableAddColumns(db, t, cols) ==
    [db        |-> [db EXCEPT !.columns[TableIndex(t)] = @ \cup cols],
     duplicate |-> cols \cap db.columns[TableIndex(t)]]

\* The try around an ALTER TABLE without its catch: an error reaches the
\* catch of the whole initialization
EscapedErrorsUncaught(duplicate) == duplicate

\* The errors of the ALTER TABLEs that reach the catch of the whole
\* initialization: each ALTER TABLE has a catch of its own, which logs
EscapedErrors(duplicate) == {}

\* The tables a run of the current code leaves, and the databases older
\* versions or interrupted runs have left: each table absent, without its
\* added columns, as created, or complete
Initialized(db) ==
    /\ db.tables = SeqRange(TableNames)
    /\ \A i \in DOMAIN TableNames : db.columns[i] = AddedColumns(TableNames[i])
TableStates == {"absent", "old", "created", "complete"}
DbOf(states) ==
    [tables  |-> {TableNames[i] : i \in {j \in DOMAIN TableNames : states[j] # "absent"}},
     columns |-> [i \in DOMAIN TableNames |->
                    CASE states[i] = "complete" -> AddedColumns(TableNames[i])
                      [] states[i] = "created"  -> CreatedColumns(TableNames[i])
                      [] OTHER                  -> {}],
     rows    |-> [i \in DOMAIN TableNames |-> IF states[i] = "absent" THEN 0 ELSE LegacyRows]]
Databases ==
    {DbOf(states) : states \in
        {s \in [DOMAIN TableNames -> TableStates] :
            /\ \A i \in DOMAIN TableNames : AddedColumns(TableNames[i]) = {} => s[i] \in {"absent", "complete"}
            /\ \A i, j \in DOMAIN TableNames :
                 (AddedColumns(TableNames[i]) = {} /\ AddedColumns(TableNames[j]) = {}) => s[i] = s[j]}}

\* The two runs of a process: the one the load of the module starts, and the
\* one the server's start awaits
Runs == {"load", "start"}
NoRun == [pc |-> 0, found |-> {}, start |-> EmptyDb, aborted |-> FALSE, tolerated |-> {}]
DatabaseStart(db) == [db |-> db, runs |-> [r \in Runs |-> NoRun]]
DatabaseIdle == database = [db |-> EmptyDb, runs |-> [r \in Runs |-> [NoRun EXCEPT !.pc = Len(Program) + 1]]]
RunDone(r) == database.runs[r].pc = Len(Program) + 1 /\ database.runs[r].start # EmptyDb

\* initializeDatabase is called: on the load of the module first, by the
\* server's start then
InitializeStart(r) ==
    /\ database.runs[r].pc = 0
    /\ r = "start" => database.runs["load"].pc > 0
    /\ database' = [database EXCEPT !.runs[r].pc = 1, !.runs[r].start = database.db]
    /\ UNCHANGED <<now, call_queue, nextQueueId, calls, twilio, tickers, handlers, retryLog, intake, posts, faults, webhook, booking, followups, extraction, slotPick, bridge, recovery>>

\* The next statements of a run
InitializeStep(r) ==
    /\ database.runs[r].pc \in DOMAIN Program
    /\ LET run  == database.runs[r]
           step == Program[run.pc]
       IN IF run.aborted
            THEN database' = [database EXCEPT !.runs[r].pc = Len(Program) + 1]
          ELSE IF step.op = "create"
            THEN LET db == CreateTableIfNotExists(database.db, step.table)
                 IN database' = [database EXCEPT !.db = db, !.runs[r].pc = @ + 1,
                                                 !.runs[r].found = TableInfo(db, step.table)]
          ELSE LET out == AlterTableAddColumns(database.db, step.table, AddedColumns(step.table) \ run.found)
               IN database' = [database EXCEPT !.db = out.db, !.runs[r].pc = @ + 1,
                                               !.runs[r].tolerated = @ \cup out.duplicate,
                                               !.runs[r].aborted = EscapedErrors(out.duplicate) # {}]
    /\ UNCHANGED <<now, call_queue, nextQueueId, calls, twilio, tickers, handlers, retryLog, intake, posts, faults, webhook, booking, followups, extraction, slotPick, bridge, recovery>>

\* -------------------------------------------------------------- media bridge
\* readyState of a WebSocket; NoSocket: connectionState.elevenLabsWs is null
ReadyStates == {"CONNECTING", "OPEN", "CLOSING", "CLOSED"}
NoSocket    == "null"

\* The close codes the voice-AI socket's close handler tells apart
CloseCodes == {1000, 1005, 1006}
NoCloseCode == 0

\* connectionState of one /outbound-media-stream connection and its sockets:
\* ws is the telephony media socket, elevenLabsWs the voice-AI socket
BridgeStart ==
    [ws |-> "OPEN", started |-> FALSE, stopped |-> FALSE, setup |-> "none", elevenLabsWs |-> NoSocket,
     code |-> NoCloseCode, notified |-> FALSE, media |-> 0, forwarded |-> 0, sends |-> {}, booking |-> FALSE]
BridgeIdle == bridge = [BridgeStart EXCEPT !.ws = "CLOSED"]

\* A call of send() on a socket: the frame, the socket, and the readyState the
\* socket had at the call
Sent(frame, socket, readyState) == [frame |-> frame, socket |-> socket, readyState |-> readyState]

\* if (socket.readyState === OPEN) socket.send(frame)
SendIfOpen(sends, frame, socket, readyState) ==
    IF readyState = "OPEN" THEN sends \cup {Sent(frame, socket, readyState)} ELSE sends

\* socket.send(frame) inside a try
SendUnguarded(sends, frame, socket, readyState) ==
    sends \cup {Sent(frame, socket, readyState)}

\* connectionState.elevenLabsWs?.readyState === WebSocket.OPEN && elevenLabsWs.close()
CloseIfOpen(readyState) == IF readyState = "OPEN" THEN "CLOSING" ELSE readyState

\* ws message "start": setupElevenLabs is called and awaits the call record
\* and the signed URL
StreamStart ==
    /\ bridge.ws = "OPEN"
    /\ ~bridge.started
    /\ bridge' = [bridge EXCEPT !.started = TRUE, !.setup = "awaiting"]
    /\ UNCHANGED <<now, call_queue, nextQueueId, calls, twilio, tickers, handlers, retryLog, intake, posts, faults, webhook, booking, followups, extraction, slotPick, database, recovery>>

\* setupElevenLabs after its awaits: new WebSocket(signedUrl), or the catch
\* when the record or the signed URL could not be had
SetupElevenLabs(ok) ==
    /\ bridge.setup = "awaiting"
    /\ bridge' = [bridge EXCEPT !.setup = IF ok THEN "done" ELSE "failed",
                                !.elevenLabsWs = IF ok THEN "CONNECTING" ELSE @]
    /\ UNCHANGED <<now, call_queue, nextQueueId, calls, twilio, tickers, handlers, retryLog, intake, posts, faults, webhook, booking, followups, extraction, slotPick, database, recovery>>

\* elevenLabsWs "open"
ElevenLabsOpen ==
    /\ bridge.elevenLabsWs = "CONNECTING"
    /\ bridge' = [bridge EXCEPT !.elevenLabsWs = "OPEN",
                                !.sends = SendIfOpen(@, "conversation_initiation_client_data", "elevenLabsWs", "OPEN")]
    /\ UNCHANGED <<now, call_queue, nextQueueId, calls, twilio, tickers, handlers, retryLog, intake, posts, faults, webhook, booking, followups, extraction, slotPick, database, recovery>>

\* elevenLabsWs "close": the connection failed, the voice AI closed it, or a
\* close() of the bridge has completed; the handler logs and notifies
ElevenLabsClose(code) ==
    /\ bridge.elevenLabsWs \in {"CONNECTING", "OPEN", "CLOSING"}
    /\ bridge' = [bridge EXCEPT !.elevenLabsWs = "CLOSED", !.code = code,
                                !.notified = code # 1005 /\ code # 1000]
    /\ UNCHANGED <<now, call_queue, nextQueueId, calls, twilio, tickers, handlers, retryLog, intake, posts, faults, webhook, booking, followups, extraction, slotPick, database, recovery>>

\* ws message "media": forwarded while the voice-AI socket is open
StreamMedia ==
    /\ bridge.ws = "OPEN"
    /\ bridge.started /\ ~bridge.stopped
    /\ bridge.media < MaxMedia
    /\ bridge' = [bridge EXCEPT !.media = @ + 1,
                                !.forwarded = IF bridge.elevenLabsWs = "OPEN" THEN @ + 1 ELSE @,
                                !.sends = IF bridge.elevenLabsWs = NoSocket THEN @
                                          ELSE SendIfOpen(@, "user_audio", "elevenLabsWs", bridge.elevenLabsWs)]
    /\ UNCHANGED <<now, call_queue, nextQueueId, calls, twilio, tickers, handlers, retryLog, intake, posts, faults, webhook, booking, followups, extraction, slotPick, database, recovery>>

\* elevenLabsWs "message": a message of the voice AI, which the socket still
\* delivers while its close is under way
ElevenLabsMessages == {"audio", "interruption", "ping", "function_call"}
ElevenLabsMessage(type) ==
    /\ bridge.elevenLabsWs \in {"OPEN", "CLOSING"}
    /\ type = "function_call" => ~bridge.booking
    /\ bridge' = [bridge EXCEPT
          !.sends = CASE type = "audio"        -> SendIfOpen(@, "media", "ws", bridge.ws)
                      [] type = "interruption" -> SendUnguarded(@, "clear", "ws", bridge.ws)
                      [] type = "ping"         -> SendIfOpen(@, "pong", "elevenLabsWs", bridge.elevenLabsWs)
                      [] OTHER                 -> @,
          !.booking = IF type = "function_call" THEN TRUE ELSE @]
    /\ UNCHANGED <<now, call_queue, nextQueueId, calls, twilio, tickers, handlers, retryLog, intake, posts, faults, webhook, booking, followups, extraction, slotPick, database, recovery>>

\* The book_appointment handler after its awaits: the function response
FunctionCallResponse ==
    /\ bridge.booking
    /\ bridge' = [bridge EXCEPT
          !.booking = FALSE,
          !.sends = SendIfOpen(@, "function_call_response", "elevenLabsWs", bridge.elevenLabsWs)]
    /\ UNCHANGED <<now, call_queue, nextQueueId, calls, twilio, tickers, handlers, retryLog, intake, posts, faults, webhook, booking, followups, extraction, slotPick, database, recovery>>

\* ws message "stop"
StreamStop ==
    /\ bridge.ws = "OPEN"
    /\ bridge.started /\ ~bridge.stopped
    /\ bridge' = [bridge EXCEPT !.stopped = TRUE, !.elevenLabsWs = CloseIfOpen(@)]
    /\ UNCHANGED <<now, call_queue, nextQueueId, calls, twilio, tickers, handlers, retryLog, intake, posts, faults, webhook, booking, followups, extraction, slotPick, database, recovery>>

\* ws "close"
StreamClose ==
    /\ bridge.ws = "OPEN"
    /\ bridge' = [bridge EXCEPT !.ws = "CLOSED", !.elevenLabsWs = CloseIfOpen(@)]
    /\ UNCHANGED <<now, call_queue, nextQueueId, calls, twilio, tickers, handlers, retryLog, intake, posts, faults, webhook, booking, followups, extraction, slotPick, database, recovery>>

\* The functions and connections checked on their own have not been used
\* ------------------------------------------------------- post-call recovery
\* What the actions read of the result of analyzeTranscriptForMissedActions
Analysis(needsAppointment, customerAgreed, needsFollowUp, customerInterested) ==
    [needsAppointment |-> needsAppointment, customerAgreed |-> customerAgreed,
     needsFollowUp |-> needsFollowUp, customerInterested |-> customerInterested]
\* return { needsAppointment: false, needsFollowUp: false, needsContactUpdate: false }
SafeDefaults == Analysis(FALSE, FALSE, FALSE, FALSE)
\* The replies of the LLM that pass the validation of the three booleans
\* (a missing appointmentDetails or followUpDetails reads as not agreed, not
\* interested), or no usable reply after the attempts
GeminiAnalyses == {Analysis(a, g, f, i) : a \in BOOLEAN, g \in BOOLEAN, f \in BOOLEAN, i \in BOOLEAN}
AnalysisReply(kind, analysis) == [kind |-> kind, analysis |-> analysis]
AnalysisThrows == AnalysisReply("throws", SafeDefaults)
AnalysisReplies == {AnalysisReply("json", a) : a \in GeminiAnalyses} \cup {AnalysisThrows}
\* The transcript: whether a message's tool_calls names book_appointment, and
\* whether the text has one of the agreement keywords
Transcripts == [bookTool : BOOLEAN, agreement : BOOLEAN]

\* The analysis without an LLM key: keyword detection
mockAnalysis(transcript) == Analysis(transcript.agreement, transcript.agreement, FALSE, FALSE)
\* analyzeTranscriptForMissedActions: the tools used go into the prompt only
analyzeTranscriptForMissedActions(keySet, transcript, reply) ==
    IF ~keySet THEN mockAnalysis(transcript)
    ELSE IF reply.kind = "throws" THEN SafeDefaults
    ELSE reply.analysis

\* What the booking meets: the contact details, a service, the calendar's
\* slots, the CRM's answer to the booking, the INSERT of saveFollowUp
BookingEnvs ==
    [contact : {"ok", "null", "throws"}, service : BOOLEAN, slots : {"some", "none", "throws"},
     bookOk : BOOLEAN, saveOk : BOOLEAN]
\* The result of an action: success, appointments booked, follow_ups rows saved
ActionResult(ran, success, booked, saved) ==
    [ran |-> ran, success |-> success, booked |-> booked, saved |-> saved]
NoAction == ActionResult(FALSE, FALSE, 0, 0)

\* executePostCallAppointmentBooking
executePostCallAppointmentBooking(analysis, env) ==
    IF ~analysis.needsAppointment \/ ~analysis.customerAgreed THEN ActionResult(TRUE, FALSE, 0, 0)
    ELSE IF env.contact # "ok" THEN ActionResult(TRUE, FALSE, 0, 0)
    ELSE IF ~env.service THEN ActionResult(TRUE, FALSE, 0, 0)
    ELSE IF env.slots = "throws" THEN ActionResult(TRUE, FALSE, 0, 0)
    ELSE IF env.slots = "none" THEN ActionResult(TRUE, FALSE, 0, IF env.saveOk THEN 1 ELSE 0)
    ELSE IF env.bookOk THEN ActionResult(TRUE, TRUE, 1, 0)
    ELSE ActionResult(TRUE, FALSE, 0, 0)

\* executePostCallFollowUp
executePostCallFollowUp(analysis, saveOk) ==
    IF ~analysis.needsFollowUp \/ ~analysis.customerInterested THEN ActionResult(TRUE, FALSE, 0, 0)
    ELSE ActionResult(TRUE, TRUE, 0, IF saveOk THEN 1 ELSE 0)

RecoveryStart(keySet, transcript) ==
    [pc |-> "analysis", keySet |-> keySet, transcript |-> transcript, analysis |-> SafeDefaults,
     appointment |-> NoAction, followUp |-> NoAction]
RecoveryIdle ==
    recovery = [RecoveryStart(TRUE, [bookTool |-> FALSE, agreement |-> FALSE]) EXCEPT !.pc = "done"]
\* The appointments the run booked and the follow_ups rows it saved
RecoveryBooked == recovery.appointment.booked
RecoverySaved == recovery.appointment.saved + recovery.followUp.saved

\* Step 1 of executePostCallAnalysis
RecoveryAnalyze(reply) ==
    /\ recovery.pc = "analysis"
    /\ ~recovery.keySet => reply = AnalysisThrows
    /\ recovery' = [recovery EXCEPT
           !.pc = "appointment",
           !.analysis = analyzeTranscriptForMissedActions(recovery.keySet, recovery.transcript, reply)]
    /\ UNCHANGED <<now, call_queue, nextQueueId, calls, twilio, tickers, handlers, retryLog, intake, posts, faults, webhook, booking, followups, extraction, slotPick, database, bridge>>

\* Step 2: the appointment, if the analysis asks for one
RecoveryAppointment(env) ==
    /\ recovery.pc = "appointment"
    /\ recovery' = [recovery EXCEPT
           !.pc = "followUp",
           !.appointment = IF recovery.analysis.needsAppointment
                           THEN executePostCallAppointmentBooking(recovery.analysis, env)
                           ELSE NoAction]
    /\ UNCHANGED <<now, call_queue, nextQueueId, calls, twilio, tickers, handlers, retryLog, intake, posts, faults, webhook, booking, followups, extraction, slotPick, database, bridge>>

\* Step 3: the follow-up, if the analysis asks for one and no appointment was
\* booked (step 4, the contact update, touches neither)
RecoveryFollowUp(saveOk) ==
    /\ recovery.pc = "followUp"
    /\ recovery' = [recovery EXCEPT
           !.pc = "done",
           !.followUp = IF /\ recovery.analysis.needsFollowUp
                           /\ (~recovery.appointment.ran \/ ~recovery.appointment.success)
                        THEN executePostCallFollowUp(recovery.analysis, saveOk)
                        ELSE NoAction]
    /\ UNCHANGED <<now, call_queue, nextQueueId, calls, twilio, tickers, handlers, retryLog, intake, posts, faults, webhook, booking, followups, extraction, slotPick, database, bridge>>

AuxIdle == ProvinceIdle /\ SlotPickIdle /\ DatabaseIdle /\ BridgeIdle /\ RecoveryIdle

\* ---------------------------------------------------------------------- clock
Tick ==
    /\ now < MaxClock
    /\ now' = now + 1
    /\ UNCHANGED <<call_queue, nextQueueId, calls, twilio, tickers, handlers, retryLog, intake, posts, faults>>
    /\ UNCHANGED extVars

\* ------------------------------------------------------------ specifications
\* A slot that takes no invocation in a specification
Off == [pc |-> "off"]
TickerSlots(on)  == [t \in Tickers  |-> IF t \in on THEN IdleTicker  ELSE Off]
HandlerSlots(on) == [h \in Handlers |-> IF h \in on THEN IdleHandler ELSE Off]

\* The endpoints outside the call queue's life cycle have seen no request
ExtIdle == WebhookIdle /\ BookingIdle /\ FollowUpIdle /\ AuxIdle

InitCommon ==
    /\ now = 0
    /\ retryLog = {}
    /\ intake = NoIntake
    /\ faults = MaxFaults

\* SpecWorker: the service is running: two calls are live (an initial attempt
\* and a first retry, placed from queue rows 1 and 2) and two fresh leads are
\* due; invocations of the worker may overlap.
LiveCalls == MAX_ACTIVE - 1
DueRows   == 2
PlacedJob(i) == [QueueRow(i, Lead(i), i - 1, 0, 0, SlotsText, "url", i > 1) EXCEPT !.created_at = 0]
InitWorker ==
    /\ InitCommon
    /\ ExtIdle
    /\ call_queue = {QueueRow(i, Lead(i), 0, 0, 0, SlotsText, "url", FALSE) :
                        i \in (LiveCalls + 1)..(LiveCalls + DueRows)}
    /\ nextQueueId = LiveCalls + DueRows + 1
    /\ calls = [sid \in 1..LiveCalls |-> CallRow(sid, PlacedJob(sid))]
    /\ twilio = [sid \in 1..LiveCalls |->
                   [status |-> "queued", queue_id |-> sid, statusCallback |-> PlacedJob(sid).statusCallback]]
    /\ tickers = TickerSlots(Tickers)
    /\ handlers = HandlerSlots({})
    /\ posts = 0

Worker ==
    \E t \in Tickers :
        \/ TickStart(t) \/ TickSelect(t) \/ TickClaim(t)
        \/ TickCreate(t) \/ TickStore(t) \/ TickFinish(t)

Status ==
    \E h \in Handlers :
        \/ \E sid \in Sids, cs \in CallStatuses, ab \in AnsweredByValues : StatusArrive(h, sid, cs, ab)
        \/ StatusAnswered(h) \/ StatusLatchLive(h) \/ StatusHangup(h)
        \/ StatusLatch(h) \/ StatusRetry(h)

Provider == \E sid \in Sids : TwilioEnd(sid)

NextWorker == Worker \/ Provider \/ Tick

SpecWorker == InitWorker /\ [][NextWorker]_vars

Next == Worker \/ Status \/ Provider \/ Tick

\* SpecChain: one lead somewhere along its retry chain; one worker invocation
\* and one status callback at a time.
RetryStages == 0..(MAX_TOTAL_ATTEMPTS - 1)
InitChain ==
    /\ InitCommon
    /\ ExtIdle
    /\ \E st \in RetryStages :
         call_queue = {[QueueRow(1, Lead(1), st, 0, 0, SlotsText, "url", st > 0)
                           EXCEPT !.created_at = IF scheduleConfig(st).type = "immediate" THEN 0 ELSE 0 - 1]}
    /\ nextQueueId = 2
    /\ calls = <<>>
    /\ twilio = <<>>
    /\ tickers = TickerSlots({1})
    /\ handlers = HandlerSlots({1})
    /\ posts = MaxPosts

SpecChain == InitChain /\ [][Next]_vars

\* SpecCalls: one lead two attempts before the cap, with every writer of table
\* calls: the worker, the status handler, the media bridge and the post-call
\* webhook
InitCalls ==
    /\ InitCommon
    /\ ExtIdle
    /\ call_queue = {QueueRow(1, Lead(1), MAX_TOTAL_ATTEMPTS - 2, 0, 0, SlotsText, "url", TRUE)}
    /\ nextQueueId = 2
    /\ calls = <<>>
    /\ twilio = <<>>
    /\ tickers = TickerSlots({1})
    /\ handlers = HandlerSlots({1})
    /\ posts = MaxPosts

OtherWriters ==
    \/ \E sid \in Sids : BridgeMetadata(sid)
    \/ \E c \in Sids, status \in WebhookStatuses : WebhookCallUpdate(c, status)

NextCalls == Next \/ OtherWriters

SpecCalls == InitCalls /\ [][NextCalls]_vars

\* SpecRetry: one placed call; its status callbacks may be handled concurrently.
InitRetry ==
    /\ InitCommon
    /\ ExtIdle
    /\ call_queue = {}
    /\ nextQueueId = 3
    /\ calls = (1 :> CallRow(1, PlacedJob(2)))
    /\ twilio = (1 :> [status |-> "queued", queue_id |-> 2, statusCallback |-> TRUE])
    /\ tickers = TickerSlots({})
    /\ handlers = HandlerSlots(Handlers)
    /\ posts = MaxPosts

NextRetry == Status \/ Provider \/ Tick

SpecRetry == InitRetry /\ [][NextRetry]_vars

\* SpecIntake: requests arrive at the intake endpoint; an earlier lead is queued
InitIntake ==
    /\ InitCommon
    /\ ExtIdle
    /\ call_queue = {QueueRow(1, Lead(0), 0, 0, 0, SlotsText, "url", FALSE)}
    /\ nextQueueId = 2
    /\ calls = <<>>
    /\ twilio = <<>>
    /\ tickers = TickerSlots({})
    /\ handlers = HandlerSlots({})
    /\ posts = 0

Request == \E req \in Requests : \E env \in EnvsFor(req) : Intake(req, env)

NextIntake == Request \/ Tick

SpecIntake == InitIntake /\ [][NextIntake]_vars

\* SpecScheduler: scheduleRetry applied to the data of one ended call, for
\* every attempt number, province and reason a caller can hand it
RetryReasons == {"machine_detected", "retryable_failure", "no_sales_reps", "permanent_failure"}
CallProvinces == {"RM", "unknown", "none"}
\* The hours of the day (UTC) at which scheduleRetry may be called
StartHours == 0..(HoursPerDay - 1)
InitScheduler ==
    /\ now \in StartHours
    /\ retryLog = {}
    /\ intake = NoIntake
    /\ faults = MaxFaults
    /\ ExtIdle
    /\ call_queue = {}
    /\ nextQueueId = 3
    /\ \E st \in RetryStages, pr \in CallProvinces, reason \in RetryReasons :
         /\ calls = (1 :> [CallRow(1, [PlacedJob(2) EXCEPT !.retry_stage = st, !.province = pr])
                             EXCEPT !.retry_scheduled = 1])
         /\ handlers = [h \in Handlers |->
                          IF h = 1
                          THEN [pc |-> "scheduleRetry", sid |-> 1, call |-> calls[1], reason |-> reason]
                          ELSE Off]
    /\ twilio = (1 :> [status |-> "completed", queue_id |-> 2, statusCallback |-> TRUE])
    /\ tickers = TickerSlots({})
    /\ posts = 0

NextScheduler == (\E h \in Handlers : ScheduleRetry(h)) \/ Tick

SpecScheduler == InitScheduler /\ [][NextScheduler]_vars

\* SpecWebhook: a post-call webhook request arrives, under either setting of
\* the secret and of the analysis switch, and may be delivered again later
CoreIdle ==
    /\ InitCommon
    /\ call_queue = {}
    /\ nextQueueId = 1
    /\ calls = <<>>
    /\ twilio = <<>>
    /\ tickers = TickerSlots({})
    /\ handlers = HandlerSlots({})
    /\ posts = 0
InitWebhook ==
    /\ CoreIdle
    /\ AuxIdle
    /\ \E secretSet \in BOOLEAN, analysisEnabled \in BOOLEAN :
         webhook = WebhookStart(secretSet, analysisEnabled)
    /\ BookingIdle
    /\ FollowUpIdle

NextWebhook == WebhookNew \/ WebhookReplay \/ AnalysisStart \/ AnalysisEnd \/ WebhookTick

SpecWebhook == InitWebhook /\ [][NextWebhook]_vars

\* SpecBooking: a booking request arrives while the CRM calendar holds any
\* set of free slots
CrmOutcomes == {"booked", "failed", "throws"}
InitBooking ==
    /\ CoreIdle
    /\ AuxIdle
    /\ WebhookIdle
    /\ \E free \in SUBSET SlotCandidates : booking = BookingStart(free)
    /\ FollowUpIdle

NextBooking ==
    \E req \in BookingRequests, crm \in CrmOutcomes, apiOk \in BOOLEAN : BookAppointment(req, crm, apiOk)

SpecBooking == InitBooking /\ [][NextBooking]_vars

\* SpecFollowUp: the follow-up processor sweeps a table of follow-ups
InitFollowUp ==
    /\ CoreIdle
    /\ AuxIdle
    /\ WebhookIdle
    /\ BookingIdle
    /\ \E rows \in FollowUpTables : followups = FollowUpStart(rows)

NextFollowUp ==
    \/ \E cleanupOk \in BOOLEAN, dbOk \in BOOLEAN : SweepStart(cleanupOk, dbOk)
    \/ \E id \in 1..MaxFollowUps, prep \in Preparations, response \in FetchResults \cup {NoFetch}, dbOk \in BOOLEAN :
          SweepProcess(id, prep, response, dbOk)
    \/ SweepWait

SpecFollowUp == InitFollowUp /\ [][NextFollowUp]_vars

\* SpecSweeps: the timer's sweeps, and one POST /followup/trigger at any moment
InitSweeps ==
    /\ CoreIdle
    /\ AuxIdle
    /\ WebhookIdle
    /\ BookingIdle
    /\ \E rows \in FollowUpTables :
         followups = [FollowUpStart(rows) EXCEPT !.trigger.pc = "ready"]

NextSweeps ==
    \/ NextFollowUp
    \/ \E cleanupOk \in BOOLEAN, dbOk \in BOOLEAN : TriggerStart(cleanupOk, dbOk)
    \/ \E id \in 1..MaxFollowUps, prep \in Preparations, response \in FetchResults \cup {NoFetch}, dbOk \in BOOLEAN :
          TriggerProcess(id, prep, response, dbOk)

SpecSweeps == InitSweeps /\ [][NextSweeps]_vars

\* SpecProvince: addresses are passed to extractProvinceFromAddress, with or
\* without an LLM key and with any cache an earlier fetch has left, while the
\* spreadsheet and the LLM answer anything
InitProvince ==
    /\ CoreIdle
    /\ WebhookIdle
    /\ BookingIdle
    /\ FollowUpIdle
    /\ RecoveryIdle
    /\ SlotPickIdle
    /\ DatabaseIdle
    /\ BridgeIdle
    /\ \E keySet \in BOOLEAN, sheet \in SheetAnswers :
         extraction = ProvinceStart(keySet, fetchZipCodeProvinceMapping(EmptyCache, FALSE, sheet))

NextProvince ==
    \E address \in Addresses, fresh \in BOOLEAN : ExtractProvince(address, fresh)

SpecProvince == InitProvince /\ [][NextProvince]_vars

\* SpecSlotPick: intake renders any list of slots the calendar answered, and
\* the AI books a time of the text
InitSlotPick ==
    /\ CoreIdle
    /\ WebhookIdle
    /\ BookingIdle
    /\ FollowUpIdle
    /\ RecoveryIdle
    /\ ProvinceIdle
    /\ DatabaseIdle
    /\ BridgeIdle
    /\ \E fetched \in SlotLists : slotPick = SlotPickStart(fetched)

NextSlotPick ==
    \/ StoreSlotsText
    \/ \E i \in 1..MaxSlots, keepCode \in BOOLEAN, read1 \in BOOLEAN, read2 \in BOOLEAN :
          BookFromText(i, keepCode, read1, read2)

SpecSlotPick == InitSlotPick /\ [][NextSlotPick]_vars

\* SpecDatabase: a process runs initializeDatabase twice, once after the other
\* or at the same time, on a database file of any age
InitDatabase ==
    /\ CoreIdle
    /\ WebhookIdle
    /\ BookingIdle
    /\ FollowUpIdle
    /\ RecoveryIdle
    /\ ProvinceIdle
    /\ SlotPickIdle
    /\ BridgeIdle
    /\ \E db \in Databases : database = DatabaseStart(db)

NextDatabase ==
    \/ \E r \in Runs : InitializeStart(r)
    \/ \E r \in Runs : InitializeStep(r)

SpecDatabase == InitDatabase /\ [][NextDatabase]_vars

\* SpecBridge: the telephony provider connects a media stream and the events
\* of the two sockets arrive in any order
InitBridge ==
    /\ CoreIdle
    /\ WebhookIdle
    /\ BookingIdle
    /\ FollowUpIdle
    /\ RecoveryIdle
    /\ ProvinceIdle
    /\ SlotPickIdle
    /\ DatabaseIdle
    /\ bridge = BridgeStart

NextBridge ==
    \/ StreamStart
    \/ \E ok \in BOOLEAN : SetupElevenLabs(ok)
    \/ ElevenLabsOpen
    \/ \E code \in CloseCodes : ElevenLabsClose(code)
    \/ StreamMedia
    \/ \E type \in ElevenLabsMessages : ElevenLabsMessage(type)
    \/ FunctionCallResponse
    \/ StreamStop
    \/ StreamClose

SpecBridge == InitBridge /\ [][NextBridge]_vars

\* SpecRecovery: executePostCallAnalysis runs once on any transcript, with or
\* without an LLM key, while the LLM, the CRM and the database answer anything
InitRecovery ==
    /\ CoreIdle
    /\ WebhookIdle
    /\ BookingIdle
    /\ FollowUpIdle
    /\ ProvinceIdle
    /\ SlotPickIdle
    /\ DatabaseIdle
    /\ BridgeIdle
    /\ \E keySet \in BOOLEAN, transcript \in Transcripts : recovery = RecoveryStart(keySet, transcript)

NextRecovery ==
    \/ \E reply \in AnalysisReplies : RecoveryAnalyze(reply)
    \/ \E env \in BookingEnvs : RecoveryAppointment(env)
    \/ \E saveOk \in BOOLEAN : RecoveryFollowUp(saveOk)

SpecRecovery == InitRecovery /\ [][NextRecovery]_vars

\* ================================================================ properties
\* C1: for any sequence of status callbacks for one call sid, overlapping
\* duplicates included, at most one retry row is inserted for that sid.
C1_OneRetryPerSid ==
    \A sid \in Sids : Cardinality({e \in retryLog : e.sid = sid}) <= 1

\* C2: the calls row of a worker-placed call is stored before the first
\* status callback for its sid is handled: the handler never answers that
\* it found no call data.
C2_RowBeforeCallback ==
    \A h \in Handlers :
        handlers[h].pc = "done" => "Call Data Not Found" \notin handlers[h].notes

\* C3: every call_queue row is claimed by at most one invocation of the
\* worker and leads to at most one telephony call, overlapping invocations
\* included.
C3_OneCallPerRow ==
    \A q \in 1..MaxQueueId :
        /\ Cardinality({sid \in DOMAIN twilio : twilio[sid].queue_id = q}) <= 1
        /\ Cardinality({t \in Tickers : /\ tickers[t].pc \in {"create", "store", "finish"}
                                        /\ Job(tickers[t]).queue_id = q}) <= 1

\* C4: the live calls (queued, ringing, in-progress) the worker started never
\* number more than MAX_ACTIVE.
C4_LiveCallsBounded == countActive <= MAX_ACTIVE

\* C5: the router gives no rep and the request is not an abrupt-ending
\* retry: the response is 400 and no call_queue row is inserted.
C5_NoRepRejected ==
    [][(/\ intake'.n # intake.n
        /\ Reached(intake', "router")
        /\ intake'.reps = {}
        /\ ~intake'.req.abrupt)
       => (intake'.code = 400 /\ call_queue' = call_queue)]_vars

C5_Witness ==
    /\ intake.n > 0
    /\ Reached(intake, "router")
    /\ intake.reps = {}
    /\ ~intake.req.abrupt
    /\ intake.province = "MI"
    /\ intake.code = 400

\* C6: a rep is eligible, the request is not an abrupt-ending retry, and the
\* slot fetch fails, throws or gives no usable slot: the response is 500 with
\* critical:true, a fatal notification is sent, no call_queue row is inserted.
FailedFetches == {"invalid", "empty", "null", "throw"}
FatalNotifications == {FatalException, FatalApiError, FatalNoSlots}
C6_SlotFailureCritical ==
    [][(/\ intake'.n # intake.n
        /\ Reached(intake', "slots")
        /\ intake'.reps # {}
        /\ ~intake'.req.abrupt
        /\ intake'.fetch \in FailedFetches)
       => (/\ intake'.code = 500
           /\ intake'.critical
           /\ intake'.notes \cap FatalNotifications # {}
           /\ call_queue' = call_queue)]_vars

C6_Witness ==
    /\ intake.n > 0
    /\ Reached(intake, "slots")
    /\ Cardinality(intake.reps) = 1
    /\ ~intake.req.abrupt
    /\ intake.fetch = "empty"
    /\ intake.code = 500
    /\ intake.critical
    /\ FatalNoSlots \in intake.notes

\* C7: a request that passes validation while no CRM token can be had for the
\* location is answered 500, an operator notification is sent and no
\* call_queue row is inserted.
C7_TokenMissing ==
    (intake.n > 0 /\ Validation(intake.req) = "ok" /\ intake.token = "none")
    => (/\ intake.code = 500
        /\ "GoHighLevel Token Missing - Call Blocked" \in intake.notes
        /\ intake.step # "queued")

\* C8: the response is 202 exactly when one new call_queue row was inserted,
\* and that row has retry_stage 0, status pending, scheduled_at and
\* first_attempt_timestamp the time of the request; any other response
\* leaves call_queue as it was.
C8_QueuedIff202 ==
    [][intake'.n # intake.n =>
         IF intake'.code = 202
         THEN \E r \in call_queue' :
                 /\ r \notin call_queue
                 /\ call_queue' = call_queue \cup {r}
                 /\ r.retry_stage = 0
                 /\ r.status = "pending"
                 /\ r.scheduled_at = now
                 /\ r.first_attempt_timestamp = now
         ELSE call_queue' = call_queue]_vars

C8_Witness ==
    /\ intake.n > 0
    /\ intake.code = 202
    /\ now > 0
    /\ \E r \in call_queue :
         /\ r.queue_id = nextQueueId - 1
         /\ r.retry_stage = 0
         /\ r.status = "pending"
         /\ r.scheduled_at = now
         /\ r.first_attempt_timestamp = now

\* C9: along a retry chain retry_count grows by exactly one per retry and
\* never passes 9; a retryable callback for a call with retry_count 9 inserts
\* no queue row.
C9_CountsInChain ==
    /\ \A r \in call_queue : r.retry_stage <= 9
    /\ \A sid \in DOMAIN calls : calls[sid].retry_count <= 9
    /\ \A e \in retryLog :
         /\ e.sid \in DOMAIN calls
         /\ e.retry_stage = calls[e.sid].retry_count + 1
         /\ \A sid \in DOMAIN calls :
                twilio[sid].queue_id = e.queue_id => calls[sid].retry_count = e.retry_stage

C9_LastAttemptSchedulesNothing ==
    \A h \in Handlers :
        (/\ handlers[h].pc = "retry"
         /\ handlers[h].call.retry_count = 9
         /\ handlers'[h].pc = "done")
        => call_queue' = call_queue

C9_RetryCount == []C9_CountsInChain /\ [][C9_LastAttemptSchedulesNothing]_vars

C9_Witness ==
    /\ \E e \in retryLog :
         /\ e.retry_stage = 9
         /\ \E sid \in DOMAIN calls :
              /\ twilio[sid].queue_id = e.queue_id
              /\ calls[sid].retry_count = 9
              /\ calls[sid].retry_scheduled = 1
    /\ \A h \in Handlers : handlers[h].pc \in {"off", "done"}

\* C10: a retry with next index n = retry_count + 1 is due at once
\* (scheduled_at = now) for n in {1, 3, 5, 7, 9} and in one hour for n = 2.
NewRetryRows == {r \in call_queue' : r.queue_id \notin {q.queue_id : q \in call_queue}}
C10_RetryDueTimes ==
    [][\A r \in NewRetryRows :
         /\ r.retry_stage \in {1, 3, 5, 7, 9} => r.scheduled_at = now
         /\ r.retry_stage = 2 => r.scheduled_at = now + 1]_vars

C10_Witness ==
    \E e \in retryLog, r \in call_queue :
        /\ r.queue_id = e.queue_id
        /\ calls[e.sid].retry_count = 1
        /\ r.retry_stage = 2
        /\ r.created_at = 1
        /\ r.scheduled_at = r.created_at + 1
        /\ r.first_attempt_timestamp = calls[e.sid].first_attempt_timestamp

\* C11: a retry with next index 4, 6 or 8 is due at the next occurrence,
\* strictly after now, of 09:00, 14:00 or 19:00 Europe/Rome civil time.
RomeHour(t) == (t + RomeUtcOffset) % HoursPerDay
NextTimeHour(n) == CASE n = 4 -> 9 [] n = 6 -> 14 [] n = 8 -> 19
C11_RetryNextTimes ==
    [][\A r \in NewRetryRows :
         r.retry_stage \in {4, 6, 8} =>
            /\ r.scheduled_at > now
            /\ r.scheduled_at <= now + HoursPerDay
            /\ RomeHour(r.scheduled_at) = NextTimeHour(r.retry_stage)]_vars

\* C12: when the retry reason is no_sales_reps, or the call's province is
\* 'unknown' after at least 2 attempts, the retry scheduler inserts no
\* call_queue row and emits a notification: the sequence stops there.
C12_PermanentIssueStops ==
    [][\A h \in Handlers :
         (/\ handlers[h].pc = "scheduleRetry"
          /\ handlers'[h].pc = "done"
          /\ \/ handlers[h].reason = "no_sales_reps"
             \/ handlers[h].call.province = "unknown" /\ handlers[h].call.retry_count >= 2)
         => /\ call_queue' = call_queue
            /\ nextQueueId' = nextQueueId
            /\ "Call Retry Stopped - Permanent Issue" \in handlers'[h].notes]_vars

C12_Witness ==
    \E h \in Handlers :
        /\ handlers[h].pc = "done"
        /\ "Call Retry Stopped - Permanent Issue" \in handlers[h].notes
        /\ calls[handlers[h].sid].province = "unknown"
        /\ calls[handlers[h].sid].retry_count = 2
        /\ call_queue = {}

\* C13: a status callback leads to a retry exactly when its outcome is
\* retryable: machine detected with CallStatus completed or canceled,
\* CallStatus no-answer, busy or failed, or machine detected while the call
\* is live; a call completed without machine detection gets no retry.
C13_Retryable(CallStatus, machine) ==
    \/ machine /\ CallStatus \in {"completed", "canceled"}
    \/ CallStatus \in {"no-answer", "busy", "failed"}
    \/ machine /\ CallStatus \in {"none", "initiated", "ringing", "in-progress"}
C13_Classification ==
    \A cs \in CallStatuses, m \in BOOLEAN :
        (Branch(cs, m) # "none") <=> C13_Retryable(cs, m)
C13_RetryIffRetryable ==
    /\ C13_Classification
    /\ [][\A h \in Handlers :
            (/\ handlers[h].pc \in {"answered", "latchLive", "hangup", "latch", "retry"}
             /\ handlers'[h].pc = "done")
            => (handlers[h].path # "none" <=> handlers[h].pc = "retry")]_vars

\* C14: POST /call-status answers 200 to every callback: for an unknown call
\* sid, for a duplicate after the latch is set, and when a database write,
\* a telephony command or the retry insert fails while it is handled.
C14_AlwaysOk ==
    [][\A h \in Handlers :
         (/\ handlers'[h].pc = "done"
          /\ handlers'[h] # handlers[h]
          /\ \/ handlers[h].pc \in {"answered", "latchLive", "hangup", "latch", "retry"}
             \/ faults' = faults)
         => handlers'[h].resp = 200]_vars

\* C15: with a webhook secret configured, a request whose signature header
\* is missing, not of the form t=...,v0=..., stale, or whose v0 is not
\* HMAC-SHA-256(secret, t + "." + raw body) causes no mutation (CRM note,
\* calls-row update, analysis) and is answered 401.
C15_BadSignature(req, time) ==
    \/ ~req.sig.present
    \/ req.sig.parts # 2 \/ req.sig.tPieces # 2 \/ req.sig.hPieces # 2
    \/ req.sig.tName # "t" \/ req.sig.hName # "v0"
    \/ req.sig.timestamp = "" \/ req.sig.hashEmpty
    \/ /\ parseInt(req.sig.timestamp) # NaN
       /\ time - parseInt(req.sig.timestamp) > SIGNATURE_TOLERANCE_MINUTES * SecondsPerMinute
    \/ req.sig.hash # Hmac(ELEVENLABS_WEBHOOK_SECRET, req.sig.timestamp, req.body)
C15_Delivered == webhook'.n = webhook.n + 1
C15_Unverified == C15_Delivered /\ webhook.secretSet /\ C15_BadSignature(webhook'.req, webhook.time)
C16_Signed(req) ==
    /\ req.body.kind = "object"
    /\ req.sig \in {WellFormed(ts, Hmac(ELEVENLABS_WEBHOOK_SECRET, ts, req.body)) :
                        ts \in TimestampTexts \ {"abc"}}
C17_ResponseBeforeAnalysis ==
    /\ [][C15_Delivered => webhook'.analysis \in {"none", "scheduled"}]_vars
    /\ [][webhook.analysis \in {"scheduled", "running"} =>
             (webhook.resp = 200 /\ webhook'.resp = 200)]_vars

C17_Witness ==
    /\ webhook.analysis = "failed"
    /\ "Post-Call Analysis Failed" \in webhook.notes
    /\ webhook.resp = 200

\* ------------------------------------------------------------ POST /bookAppointment

\* The request was answered after the CRM refused the slot and the
\* free-slots request succeeded
BookingFailed == booking.n > 0 /\ booking.crm = "failed" /\ booking.apiOk

\* The free slots at or after the requested UTC time, within 7 days of UTC
\* midnight of the requested date
FreeFromRequested ==
    {sl \in booking.free :
        /\ booking.requested <= sl
        /\ sl <= Hour(UTCDate(booking.requested), 0) + AlternativesWindowDays * HoursPerDay}

\* C18: the response is 201 when the CRM books the slot; 200 with status
\* booking_failed_alternatives_available when booking fails and at least one
\* alternative slot exists; 409 with booking_failed_no_alternatives when
\* booking fails and none exists; 400 when appointmentDate cannot be parsed.
C18_BookingResponses ==
    booking.n > 0 =>
        /\ booking.crm = "booked" => booking.code = 201
        /\ (BookingFailed /\ FreeFromRequested # {}) =>
              booking.code = 200 /\ booking.status = "booking_failed_alternatives_available"
        /\ (BookingFailed /\ FreeFromRequested = {}) =>
              booking.code = 409 /\ booking.status = "booking_failed_no_alternatives"
        /\ booking.req.appointmentDate.form \notin ParsedForms => booking.code = 400

\* The first two distinct UTC dates having a free slot from the requested time
FirstTwoDates ==
    LET dates == SortSlots({UTCDate(sl) : sl \in FreeFromRequested})
    IN SeqRange(SubSeq(dates, 1, IF Len(dates) < 2 THEN Len(dates) ELSE 2))

\* C19: after a failed booking the alternatives returned are exactly all free
\* slots at or after the requested UTC time, in chronological order, on the
\* first two distinct UTC dates having such slots within the 7-day window that
\* starts at UTC midnight of the requested date.
C19_AlternativesOfTwoDays ==
    BookingFailed =>
        booking.slots = SortSlots({sl \in FreeFromRequested : UTCDate(sl) \in FirstTwoDates})

\* ------------------------------------------------------------ follow-up processor

\* The follow-up last processed was resubmitted to the intake; the DELETE
\* statement, where one ran, succeeded
C20_Resubmitted == followups.last.id # 0 /\ followups.last.resubmitted
C20_Pending == followups.last.id \in RowIds(followups.rows)
C20_Notified == "FollowUp Permanently Failed - Deleted" \in followups.last.notes
C20_PermanentBody == followups.last.response.body \cap PermanentFailureMessages # {}
C20_Is2xx ==
    /\ followups.last.response.kind = "response"
    /\ followups.last.response.status \in 200..299
C20_Is4xx ==
    /\ followups.last.response.kind = "response"
    /\ followups.last.response.status \in 400..499
C20_Is400 ==
    /\ followups.last.response.kind = "response"
    /\ followups.last.response.status = 400

C23_Delayed(r) == r.retry_stage > 0 /\ scheduleConfig(r.retry_stage).type # "immediate"

C25_Handled(r) ==
    \E t \in Tickers :
        /\ tickers[t].pc \in {"create", "store", "finish"}
        /\ Job(tickers[t]).queue_id = r.queue_id

\* C25: a call_queue row has status processing only between its claim and the
\* end of that row's handling: once the worker has finished a row it claimed,
\* the row is deleted or marked failed with last_error, and no row is left in
\* processing.
C25_ProcessingOnlyWhileHandled ==
    \A r \in call_queue : r.status = "processing" => C25_Handled(r)

\* ------------------------------------------------------------ active-call count

\* The invocation of ticker t could not count the live calls
C26_CountFailed(t) == tickers[t].pc # "off" /\ tickers[t].count = "failed"

\* C26: when the telephony active-call count query fails, the tick treats the
\* cap as saturated: the invocation ends there, it claims no row and places no
\* call.
C26_FailedCountSkips ==
    \A t \in Tickers : C26_CountFailed(t) => tickers[t].pc = "idle"

\* The count failed while a row was due and the cap had room
C26_Witness ==
    /\ \E t \in Tickers : C26_CountFailed(t)
    /\ countActive < MAX_ACTIVE
    /\ \E r \in call_queue : r.status = "pending" /\ r.scheduled_at <= now

\* ------------------------------------------------------------ machine on a live call

\* Invocation h, on the machine-on-a-live-call branch, returns from
\* scheduleRetry in this step; no collaborator has failed and scheduleRetry
\* neither stops for a permanent issue nor for the cap
C27_MachineLiveRetry(h) ==
    /\ handlers[h].pc = "retry"
    /\ handlers[h].path = "latchLive"
    /\ handlers'[h].pc = "done"
    /\ faults' = MaxFaults
    /\ RetryDecision(handlers[h].call, "machine_detected") = "insert"

\* C27: when a machine is detected while the call is still live, the handler
\* sets the latch and issues the telephony hangup command before the retry row
\* is inserted, and exactly one retry row with retry_stage = retry_count + 1
\* results.
C27_HangupThenOneRetry ==
    [][\A h \in Handlers :
         C27_MachineLiveRetry(h) =>
            /\ calls[handlers[h].sid].retry_scheduled = 1
            /\ twilio[handlers[h].sid].status \notin ActiveStatuses
            /\ \E e \in retryLog' :
                 /\ e.sid = handlers[h].sid
                 /\ e.retry_stage = handlers[h].call.retry_count + 1
                 /\ \A o \in retryLog' : o.sid = handlers[h].sid => o = e]_vars

\* ------------------------------------------------------------ what a retry carries

\* The call a retry row retries: a calls row of the same contact whose
\* retry_count is one less than the row's retry_stage
C28_Retries(r, c) == c.contactId = r.contact_id /\ c.retry_count + 1 = r.retry_stage

\* C28: every retry row carries first_attempt_timestamp, service, province,
\* slot text and initial signed URL unchanged from the call it retries, so all
\* attempts of one chain share the first attempt's first_attempt_timestamp.
C28_RetryCarriesForward ==
    /\ \A r \in call_queue :
         r.queue_id > 1 =>
            \E sid \in DOMAIN calls :
                /\ C28_Retries(r, calls[sid])
                /\ r.first_attempt_timestamp = calls[sid].first_attempt_timestamp
                /\ r.service = calls[sid].service
                /\ r.province = calls[sid].province
                /\ r.available_slots_text = calls[sid].availableSlots
                /\ r.initial_signed_url = calls[sid].signedUrl
    /\ \A r \in call_queue : r.first_attempt_timestamp = 0
    /\ \A sid \in DOMAIN calls : calls[sid].first_attempt_timestamp = 0

\* A retry row inserted after the clock has moved on from the first attempt
C28_Witness ==
    \E r \in call_queue :
        /\ r.queue_id > 1
        /\ r.created_at > 0
        /\ r.first_attempt_timestamp = 0

\* C22: every value returned by the province extraction is null or one of the
\* 110 province codes, whichever strategy returned it
C22_ProvinceOrNull ==
    extraction.pc = "done" => extraction.result \in validProvinceCodes \cup {Null}

\* The reps the slot text shows the booked time under (under the booked code,
\* when the AI kept it)
C21_Shown ==
    {RepInText(slotPick.allSlots, slotPick.allSlots[i]) : i \in
        {i \in DOMAIN slotPick.allSlots :
            /\ slotPick.allSlots[i].day = slotPick.appointmentDate.day
            /\ slotPick.allSlots[i].hour = slotPick.appointmentDate.hour
            /\ slotPick.appointmentDate.code # NoCode =>
                 userIdMap(slotPick.allSlots, slotPick.allSlots[i].userId) = slotPick.appointmentDate.code}}
\* C21: the rep the bridge resolves for a time the AI books from the slot
\* text is a rep the text shows that time under, or no rep; never another rep
C21_RepOfTextOrNone ==
    slotPick.pc = "done" => slotPick.userId \in C21_Shown \cup {Null}
C21_Witness ==
    /\ slotPick.pc = "done"
    /\ Len(uniqueUserIds(slotPick.allSlots)) = 2
    /\ slotPick.appointmentDate.code = "B"
    /\ slotPick.userId # Null

\* C24: a run of the initialization completes without an error, keeps the
\* tables, columns and rows it found, and changes nothing when the database
\* was initialized already
C24_InitializationIdempotent ==
    \A r \in Runs :
        RunDone(r) =>
            LET run == database.runs[r]
            IN /\ ~run.aborted
               /\ run.start.tables \subseteq database.db.tables
               /\ \A i \in DOMAIN TableNames :
                    /\ run.start.columns[i] \subseteq database.db.columns[i]
                    /\ TableNames[i] \in run.start.tables => database.db.rows[i] = run.start.rows[i]
               /\ Initialized(run.start) => database.db = run.start
               /\ Initialized(database.db)
C24_Witness ==
    \E r \in Runs :
        /\ RunDone(r)
        /\ Initialized(database.runs[r].start)
        /\ database.db.rows[TableIndex("call_queue")] = LegacyRows
C24_WitnessDuplicate ==
    \E r \in Runs : RunDone(r) /\ "province" \in database.runs[r].tolerated

\* C29: once the telephony side has sent stop or its socket has closed, the
\* voice-AI socket of the call is neither connecting nor open
C29_NoVoiceSocketAfterTelephony ==
    (bridge.stopped \/ (bridge.started /\ bridge.ws = "CLOSED")) =>
        bridge.elevenLabsWs \notin {"CONNECTING", "OPEN"}

\* C30: once the voice-AI socket has closed, the telephony media socket is
\* not left open
C30_TelephonyClosedAfterVoice ==
    bridge.elevenLabsWs = "CLOSED" => bridge.ws # "OPEN"

\* C31: every frame the bridge sends is sent on a socket whose readyState is
\* OPEN at the send
C31_SendsOnlyOnOpen ==
    \A f \in bridge.sends : f.readyState = "OPEN"
\* C32: after the cleanup that opens a sweep has run (its query succeeded), no
\* pending follow-up is left that is more than 24 hours overdue, and none that
\* is more than 1 hour overdue and has had a failed resubmission; every row the
\* cleanup removed was notified
C32_CleanupDone ==
    /\ followups.n > 0
    /\ followups.clock = followups.n - 1
    /\ followups.last = NoFollowUp
    /\ followups.cleanup.ok
C32_CleanupRemovesOverdue ==
    C32_CleanupDone =>
        /\ followups.cleanup.removed \subseteq followups.cleanup.notified
        /\ \A r \in followups.rows :
              /\ ~(r.follow_up_at_utc < followups.clock - StuckAfterHours)
              /\ ~(r.follow_up_at_utc < followups.clock - 1
                     /\ r.follow_up_id \in followups.failed)

\* C33: every request the intake's validation rejects (Service missing, Service
\* not an allowed one, full_address missing on a request that is no abrupt-ending
\* retry, phone or contact id missing) is answered with a 4xx and an operator
\* notification
C33_ValidationRejected == intake.n > 0 /\ intake.step \in {"service", "allowed", "address", "ids"}
C33_RejectionNotifies ==
    C33_ValidationRejected =>
        /\ 400 <= intake.code /\ intake.code <= 499
        /\ intake.notes # {}

\* C34: post-call recovery books an appointment only if the live call did not
\* already invoke book_appointment
C34_BooksOnlyIfNotBookedLive == RecoveryBooked > 0 => ~recovery.transcript.bookTool

\* C39: one run of post-call recovery persists at most one follow-up for the
\* contact, also when the missed appointment found no slots and the analysis
\* asked for a follow-up as well
C39_AtMostOneFollowUp == RecoverySaved <= 1

\* C40: when the same valid post_call_transcription webhook is delivered again
\* within the signature's 30-minute window, post-call recovery does not run a
\* second time (with the secret configured every delivery that starts a run
\* has passed the signature check)
C40_RecoveryRunsOnce == webhook.secretSet => webhook.runs <= 1

\* C36: a call_queue row is marked failed only if no telephony call was created
\* for it; once the call of a job is created and the worker has left the job,
\* the row is gone and calls has a row for the new sid
C36_JobLeft(sid) ==
    \A t \in Tickers : ~(tickers[t].pc \in {"store", "finish"} /\ tickers[t].sid = sid)
C36_FailedOnlyWithoutCall ==
    \A sid \in DOMAIN twilio :
        /\ \A r \in call_queue :
              r.queue_id = twilio[sid].queue_id => r.status # "failed"
        /\ C36_JobLeft(sid) =>
              /\ twilio[sid].queue_id \notin {r.queue_id : r \in call_queue}
              /\ sid \in DOMAIN calls

\* C37: when the status handler has set the retry_scheduled latch of a call
\* with retry_count < 9 and no permanent issue and has returned, a retry row
\* for the call has been put in call_queue; a failed INSERT does not leave the
\* latch set with no retry enqueued
C37_HandlerReturned(sid) ==
    \A h \in DOMAIN handlers : ~(handlers[h].sid = sid /\ handlers[h].pc \in {"hangup", "retry"})
C37_LatchHasRetry ==
    \A sid \in DOMAIN calls :
        (/\ calls[sid].retry_scheduled = 1
         /\ calls[sid].retry_count < MAX_TOTAL_ATTEMPTS - 1
         /\ ~isPermanentIssue(calls[sid], "retryable_failure")
         /\ C37_HandlerReturned(sid))
        => \E e \in retryLog : e.sid = sid

C38_OneSweepPerFollowUp == followups.sent \cap followups.trigger.sent = {}

====
